---- MODULE Spec2Model ----
(***************************************************************************)
(* Availability & booking engine of the padel agenda (agenda_mcp.py).      *)
(*                                                                         *)
(* The persistent state is the set of SQL tables the tools read and write. *)
(* Every tool call is carried out by a worker (one request being served,   *)
(* so NumWorkers bounds the number of calls of a behaviour);                *)
(* a call is cut into steps at the points where the source opens a new     *)
(* connection or transaction, or issues a statement whose result it        *)
(* branches on, so that other calls may interleave exactly where the       *)
(* database would let them.                                                *)
(*                                                                         *)
(* Instants are integer ticks (UTC); a calendar day has TicksPerDay ticks; *)
(* a timezone is a fixed offset in ticks (no DST in this model).           *)
(***************************************************************************)
EXTENDS Integers, Sequences, FiniteSets, Bags, TLC

(***************************************************************************)
(* Bounds of the model                                                     *)
(***************************************************************************)
NumWorkers == 2
MaxClock == 1
TicksPerDay == 6
Day0Weekday == 3

Workers == 1..NumWorkers

(***************************************************************************)
(* SQL NULL / Python None for the column types used                        *)
(***************************************************************************)
NULL == 0
NullTime == 0 - 1
NullText == "NULL"

(***************************************************************************)
(* Time & timezone normalizer                                              *)
(***************************************************************************)
DefaultTimezone == "Europe/Madrid"

\* the zone names of the tz database that the agendas use
KnownZones == { "Europe/Madrid", "UTC", "Atlantic/Canary" }

\* ZoneInfo(name) finds the zone; for any other name it raises
\* ZoneInfoNotFoundError
ZoneFound(tzname) == tzname \in KnownZones

\* ZoneInfo(name).utcoffset, in ticks
UtcOffset(tzname) == IF tzname = "Europe/Madrid" THEN 1 ELSE 0

\* coach["timezone"] or "Europe/Madrid"
CoachTz(coach) == IF coach.timezone = NullText \/ coach.timezone = ""
                  THEN DefaultTimezone ELSE coach.timezone

\* dt.replace(tzinfo=utc).astimezone(tz) : local wall-clock tick
ToLocal(t, tzname) == t + UtcOffset(tzname)

\* local.date() as a day number
LocalDate(tl) == tl \div TicksPerDay

\* date.isoweekday(), 1 = Monday .. 7 = Sunday
IsoWeekday(d) == ((d + Day0Weekday - 1) % 7) + 1

\* datetime.combine(d, t, tzinfo=tz) as a local tick
Combine(d, tod) == d * TicksPerDay + tod

\* _get_day_bounds_utc
DayBoundsUTC(d, tzname) ==
    << Combine(d, 0) - UtcOffset(tzname), Combine(d + 1, 0) - UtcOffset(tzname) >>

(***************************************************************************)
(* Persistent state (the tables) and the workers serving calls             *)
(***************************************************************************)
VARIABLES
    app_users,                 \* seq of [telegram_user_id, role, status, full_name]; id = index
    clients,                   \* seq of [user_id]; id = index
    coaches,                   \* seq of [user_id, timezone, default_lesson_minutes]; id = index
    services,                  \* seq of [name, duration_minutes, is_active]; id = index
    availability_rules,        \* seq of rule rows
    availability_exceptions,   \* seq of exception rows; id = index
    bookings,                  \* seq of booking rows; id = index
    clock,                     \* the wall clock read by _utcnow()
    pc,                        \* per worker: the step its call is at
    call,                      \* per worker: the tool call and its arguments
    loc,                       \* per worker: local variables of the call
    ret,                       \* per worker: the outcome of the call
    telegram_updates,          \* set of update_id (the primary key of the table)
    telegram_users,            \* set of telegram_user_id
    sessions,                  \* telegram_user_id -> session row (private chats: chat = user)
    messages,                  \* bag of [direction, telegram_update_id, telegram_user_id]
    coach_invites,             \* seq of invite rows; id = index
    outbox                     \* bag of the messages Telegram accepted: [chat_id, update_id]

tables == << app_users, clients, coaches, services,
             availability_rules, availability_exceptions, bookings >>
\* the tables and the outgoing messages of src/main.py
infra == << telegram_updates, telegram_users, sessions, messages, coach_invites, outbox >>
vars == << app_users, clients, coaches, services,
           availability_rules, availability_exceptions, bookings,
           clock, pc, call, loc, ret,
           telegram_updates, telegram_users, sessions, messages, coach_invites, outbox >>

\* init_db: the tables of the bot are created empty; no invite has been issued
InfraInit ==
    /\ telegram_updates = { }
    /\ telegram_users = { }
    /\ sessions = [t \in { } |-> NULL]
    /\ messages = EmptyBag
    /\ coach_invites = << >>
    /\ outbox = EmptyBag

NoCall == [op |-> "none"]
NoLoc == [none |-> TRUE]
NoRet == [kind |-> "none"]

\* a tool returns a dict / raises ValueError(code)
Raise(code) == [kind |-> "raise", ok |-> FALSE, error |-> code]
Reject(code) == [kind |-> "return", ok |-> FALSE, error |-> code]

RangeOf(s) == { s[i] : i \in DOMAIN s }

\* the sequences that list every id of ids once
Orderings(ids) ==
    { f \in [1..Cardinality(ids) -> ids] : \A x \in ids : \E k \in DOMAIN f : f[k] = x }

(***************************************************************************)
(* Row lookups                                                             *)
(***************************************************************************)
\* SELECT ... FROM app_users WHERE telegram_user_id=:tid  (.first()); NULL if none
GetAppUserByTelegram(users, tid) ==
    IF \E i \in DOMAIN users : users[i].telegram_user_id = tid
    THEN CHOOSE i \in DOMAIN users :
             /\ users[i].telegram_user_id = tid
             /\ \A j \in DOMAIN users : users[j].telegram_user_id = tid => i <= j
    ELSE NULL

\* SELECT id FROM clients WHERE user_id=:uid  (.first()); NULL if none
ClientIdOfUser(cls, uid) ==
    IF \E i \in DOMAIN cls : cls[i].user_id = uid
    THEN CHOOSE i \in DOMAIN cls :
             /\ cls[i].user_id = uid
             /\ \A j \in DOMAIN cls : cls[j].user_id = uid => i <= j
    ELSE NULL

\* SELECT cl.id FROM clients cl JOIN app_users u ... WHERE u.telegram_user_id=:tid
GetClientIdForTelegramUser(users, cls, tid) ==
    IF GetAppUserByTelegram(users, tid) = NULL THEN NULL
    ELSE ClientIdOfUser(cls, GetAppUserByTelegram(users, tid))

\* SELECT c.id FROM coaches c JOIN app_users u ... WHERE u.telegram_user_id=:tid
GetCoachIdForTelegramUser(users, chs, tid) ==
    IF GetAppUserByTelegram(users, tid) = NULL THEN NULL
    ELSE LET uid == GetAppUserByTelegram(users, tid) IN
         IF \E i \in DOMAIN chs : chs[i].user_id = uid
         THEN CHOOSE i \in DOMAIN chs :
                  /\ chs[i].user_id = uid
                  /\ \A j \in DOMAIN chs : chs[j].user_id = uid => i <= j
         ELSE NULL

\* _ensure_client_user: one transaction; yields the tables after it and ids
EnsureClientUser(users, cls, tid, full_name) ==
    LET uid0 == GetAppUserByTelegram(users, tid) IN
    IF uid0 # NULL /\ users[uid0].status # "active"
    THEN [raised |-> TRUE, users |-> users, clients |-> cls,
          user_id |-> NULL, client_id |-> NULL]
    ELSE
      LET users1 ==
            IF uid0 # NULL
            THEN IF /\ users[uid0].role = "client"
                    /\ full_name # NullText /\ full_name # ""
                    /\ (users[uid0].full_name = NullText \/ users[uid0].full_name = "")
                 THEN [users EXCEPT ![uid0].full_name = full_name]
                 ELSE users
            ELSE Append(users, [telegram_user_id |-> tid, role |-> "client",
                                status |-> "active", full_name |-> full_name])
          uid == IF uid0 # NULL THEN uid0 ELSE Len(users1)
          cls1 == IF ClientIdOfUser(cls, uid) # NULL THEN cls
                  ELSE Append(cls, [user_id |-> uid])
      IN [raised |-> FALSE, users |-> users1, clients |-> cls1,
          user_id |-> uid, client_id |-> ClientIdOfUser(cls1, uid)]

(***************************************************************************)
(* Slot admissibility (_slot_allowed)                                      *)
(***************************************************************************)
\* rule rows selected for (coach, weekday, date)
RulesFor(rules, cid, d) ==
    { r \in RangeOf(rules) :
        /\ r.coach_id = cid
        /\ r.weekday = IsoWeekday(d)
        /\ (r.valid_from = NullTime \/ r.valid_from <= d)
        /\ (r.valid_to = NullTime \/ r.valid_to >= d) }

\* exception rows of a type intersecting [lo, hi)
ExceptionsIn(excs, cid, type, lo, hi) ==
    { e \in RangeOf(excs) :
        /\ e.coach_id = cid
        /\ e.type = type
        /\ e.start_at < hi
        /\ e.end_at > lo }

\* _slot_allowed with a rule accepted when either end of the request fits it
SlotAllowed_EitherEnd(chs, rules, excs, cid, start_dt, end_dt) ==
    LET tz == CoachTz(chs[cid])
        start_local == ToLocal(start_dt, tz)
        end_local == ToLocal(end_dt, tz)
        d == LocalDate(start_local)
        bounds == DayBoundsUTC(d, tz)
    IN IF LocalDate(start_local) # LocalDate(end_local) THEN FALSE
       ELSE \/ \E r \in RulesFor(rules, cid, d) :
                  \/ start_local >= Combine(d, r.start_time)
                  \/ end_local <= Combine(d, r.end_time)
            \/ \E ex \in ExceptionsIn(excs, cid, "extra", bounds[1], bounds[2]) :
                  /\ start_dt >= ex.start_at
                  /\ end_dt <= ex.end_at

\* _slot_allowed without the same-local-date test
SlotAllowed_NoDateCheck(chs, rules, excs, cid, start_dt, end_dt) ==
    LET tz == CoachTz(chs[cid])
        start_local == ToLocal(start_dt, tz)
        end_local == ToLocal(end_dt, tz)
        d == LocalDate(start_local)
        bounds == DayBoundsUTC(d, tz)
    IN \/ \E r \in RulesFor(rules, cid, d) :
              /\ start_local >= Combine(d, r.start_time)
              /\ end_local <= Combine(d, r.end_time)
       \/ \E ex \in ExceptionsIn(excs, cid, "extra", bounds[1], bounds[2]) :
              /\ start_dt >= ex.start_at
              /\ end_dt <= ex.end_at

\* _slot_allowed for an existing coach row
SlotAllowed(chs, rules, excs, cid, start_dt, end_dt) ==
    LET tz == CoachTz(chs[cid])
        start_local == ToLocal(start_dt, tz)
        end_local == ToLocal(end_dt, tz)
        d == LocalDate(start_local)
        bounds == DayBoundsUTC(d, tz)
    IN IF LocalDate(start_local) # LocalDate(end_local) THEN FALSE
       ELSE \/ \E r \in RulesFor(rules, cid, d) :
                  /\ start_local >= Combine(d, r.start_time)
                  /\ end_local <= Combine(d, r.end_time)
            \/ \E ex \in ExceptionsIn(excs, cid, "extra", bounds[1], bounds[2]) :
                  /\ start_dt >= ex.start_at
                  /\ end_dt <= ex.end_at

(***************************************************************************)
(* Initial state: the provisioned users, coaches and schedule              *)
(***************************************************************************)
\* telegram id of the k-th identity that talks to the bot
Tid(k) == 100 + k
TidClientA == Tid(1)
TidClientB == Tid(2)
TidCoach1 == Tid(3)
TidCoach2 == Tid(4)
TidAdmin == Tid(5)
TidBlocked == Tid(6)
TidBareClient == Tid(7)
TidUnknown == Tid(8)

InitUsers ==
  << [telegram_user_id |-> TidClientA, role |-> "client", status |-> "active", full_name |-> "Ana"],
     [telegram_user_id |-> TidClientB, role |-> "client", status |-> "active", full_name |-> "Ben"],
     [telegram_user_id |-> TidCoach1, role |-> "coach", status |-> "active", full_name |-> "Cris"],
     [telegram_user_id |-> TidCoach2, role |-> "coach", status |-> "active", full_name |-> "Dani"],
     [telegram_user_id |-> TidAdmin, role |-> "admin", status |-> "active", full_name |-> "Eva"],
     [telegram_user_id |-> TidBlocked, role |-> "client", status |-> "blocked", full_name |-> "Fran"],
     [telegram_user_id |-> TidBareClient, role |-> "client", status |-> "active", full_name |-> NullText] >>

InitClients == << [user_id |-> 1], [user_id |-> 2], [user_id |-> 6] >>

InitCoaches ==
  << [user_id |-> 3, timezone |-> "Europe/Madrid", default_lesson_minutes |-> 1],
     [user_id |-> 4, timezone |-> "UTC", default_lesson_minutes |-> 1] >>

\* coach 1 is open on the weekday of day 0, local ticks 1..3
Rule(cid, wd, st, en, step) ==
    [coach_id |-> cid, weekday |-> wd, start_time |-> st, end_time |-> en,
     slot_minutes |-> step, valid_from |-> NullTime, valid_to |-> NullTime]

InitRules == << Rule(1, IsoWeekday(0), 1, 3, 1) >>

\* a reservation left tentative by an earlier import, coach 1, client 2
TentativeRow ==
    [coach_id |-> 1, client_id |-> 2, service_id |-> NULL,
     start_at |-> 1, end_at |-> 2, status |-> "tentative",
     created_by_user_id |-> 5, cancelled_by_user_id |-> NULL,
     cancelled_at |-> NullTime, cancel_reason |-> NullText]

\* a reservation client 1 made earlier with create_booking, coach 1
ConfirmedRow ==
    [coach_id |-> 1, client_id |-> 1, service_id |-> NULL,
     start_at |-> 0, end_at |-> 1, status |-> "confirmed",
     created_by_user_id |-> 1, cancelled_by_user_id |-> NULL,
     cancelled_at |-> NullTime, cancel_reason |-> NullText]

Init ==
    /\ app_users = InitUsers
    /\ clients = InitClients
    /\ coaches = InitCoaches
    /\ services = << >>
    /\ availability_rules = InitRules
    /\ availability_exceptions = << >>
    /\ bookings \in { << >>, << TentativeRow >>, << ConfirmedRow >> }
    /\ clock = 0
    /\ pc = [w \in Workers |-> "idle"]
    /\ call = [w \in Workers |-> NoCall]
    /\ loc = [w \in Workers |-> NoLoc]
    /\ ret = [w \in Workers |-> NoRet]
    /\ InfraInit

(***************************************************************************)
(* Worker bookkeeping                                                      *)
(***************************************************************************)
\* the call of worker w ends with outcome r
Finish(w, r) ==
    /\ pc' = [pc EXCEPT ![w] = "done"]
    /\ loc' = [loc EXCEPT ![w] = NoLoc]
    /\ ret' = [ret EXCEPT ![w] = r]
    /\ UNCHANGED infra

\* the call of worker w moves on to step next with locals l
Goto(w, next, l) ==
    /\ pc' = [pc EXCEPT ![w] = next]
    /\ loc' = [loc EXCEPT ![w] = l]
    /\ ret' = ret
    /\ UNCHANGED infra

(***************************************************************************)
(* create_booking                                                          *)
(*                                                                         *)
(* The transaction runs at the engine's default isolation and takes no     *)
(* lock: each of its statements is a step that reads the rows committed    *)
(* at that moment (two adjacent steps read one snapshot), and the INSERT   *)
(* becomes visible to the other calls when it commits.                     *)
(***************************************************************************)
\* blocked exceptions of the coach overlapping [s, e)
BlockedHits(excs, cid, s, e) ==
    { i \in DOMAIN excs :
        /\ excs[i].coach_id = cid
        /\ excs[i].type = "blocked"
        /\ excs[i].start_at < e
        /\ excs[i].end_at > s }

\* the conflict query with closed intervals: touching bookings conflict too
ConflictHits_Closed(bks, cid, s, e) ==
    { i \in DOMAIN bks :
        /\ bks[i].coach_id = cid
        /\ bks[i].status \in {"tentative", "confirmed"}
        /\ bks[i].start_at <= e
        /\ bks[i].end_at >= s }

\* live bookings of the coach overlapping [s, e)
ConflictHits(bks, cid, s, e) ==
    { i \in DOMAIN bks :
        /\ bks[i].coach_id = cid
        /\ bks[i].status \in {"tentative", "confirmed"}
        /\ bks[i].start_at < e
        /\ bks[i].end_at > s }

\* the inserted row left tentative, to be confirmed later
NewBookingRow_Tentative(cid, l) ==
    [coach_id |-> cid, client_id |-> l.client_id, service_id |-> l.service_id,
     start_at |-> l.start_dt, end_at |-> l.end_dt, status |-> "tentative",
     created_by_user_id |-> l.actor_user_id, cancelled_by_user_id |-> NULL,
     cancelled_at |-> NullTime, cancel_reason |-> NullText]

\* the row create_booking inserts
NewBookingRow(cid, l) ==
    [coach_id |-> cid, client_id |-> l.client_id, service_id |-> l.service_id,
     start_at |-> l.start_dt, end_at |-> l.end_dt, status |-> "confirmed",
     created_by_user_id |-> l.actor_user_id, cancelled_by_user_id |-> NULL,
     cancelled_at |-> NullTime, cancel_reason |-> NullText]

\* create_booking taking a client's clientId argument when one is passed
CB_Resolve_TrustsArg(w, tid, cid, start, dur, service_id, client_id) ==
    /\ pc[w] = "idle"
    /\ call' = [call EXCEPT ![w] =
                  [op |-> "create_booking", telegram_user_id |-> tid, coach_id |-> cid,
                   start_utc |-> start, duration_minutes |-> dur,
                   service_id |-> service_id, client_id |-> client_id]]
    /\ UNCHANGED << coaches, services, availability_rules,
                    availability_exceptions, bookings, clock >>
    /\ IF tid = NULL
       THEN /\ Finish(w, Raise("actor_telegram_user_id_required"))
            /\ UNCHANGED << app_users, clients >>
       ELSE
         LET prov == IF GetAppUserByTelegram(app_users, tid) = NULL
                     THEN EnsureClientUser(app_users, clients, tid, NullText)
                     ELSE [raised |-> FALSE, users |-> app_users, clients |-> clients,
                           user_id |-> NULL, client_id |-> NULL]
             uid == GetAppUserByTelegram(prov.users, tid)
             u == prov.users[uid]
         IN
         IF u.status # "active"
         THEN /\ Finish(w, Raise("user_blocked"))
              /\ app_users' = prov.users
              /\ clients' = prov.clients
         ELSE IF u.role = "client"
         THEN LET ens == IF GetClientIdForTelegramUser(prov.users, prov.clients, tid) = NULL
                         THEN EnsureClientUser(prov.users, prov.clients, tid, u.full_name)
                         ELSE prov
              IN /\ app_users' = ens.users
                 /\ clients' = ens.clients
                 /\ Goto(w, "cb_allowed",
                         [actor_user_id |-> uid, start_dt |-> start, end_dt |-> start + dur,
                          service_id |-> service_id,
                          client_id |-> IF client_id # NULL THEN client_id
                              ELSE GetClientIdForTelegramUser(ens.users, ens.clients, tid)])
         ELSE /\ app_users' = prov.users
              /\ clients' = prov.clients
              /\ IF u.role \notin {"coach", "admin"}
                 THEN Finish(w, Raise("forbidden_requires_coach"))
                 ELSE IF client_id = NULL
                 THEN Finish(w, Reject("client_id_required_for_coach"))
                 ELSE Goto(w, "cb_allowed",
                           [actor_user_id |-> uid, start_dt |-> start, end_dt |-> start + dur,
                            service_id |-> service_id, client_id |-> client_id])

\* actor lookup, auto-provisioning, _require_active, client-id resolution
CB_Resolve(w, tid, cid, start, dur, service_id, client_id) ==
    /\ pc[w] = "idle"
    /\ call' = [call EXCEPT ![w] =
                  [op |-> "create_booking", telegram_user_id |-> tid, coach_id |-> cid,
                   start_utc |-> start, duration_minutes |-> dur,
                   service_id |-> service_id, client_id |-> client_id]]
    /\ UNCHANGED << coaches, services, availability_rules,
                    availability_exceptions, bookings, clock >>
    /\ IF tid = NULL
       THEN /\ Finish(w, Raise("actor_telegram_user_id_required"))
            /\ UNCHANGED << app_users, clients >>
       ELSE
         LET prov == IF GetAppUserByTelegram(app_users, tid) = NULL
                     THEN EnsureClientUser(app_users, clients, tid, NullText)
                     ELSE [raised |-> FALSE, users |-> app_users, clients |-> clients,
                           user_id |-> NULL, client_id |-> NULL]
             uid == GetAppUserByTelegram(prov.users, tid)
             u == prov.users[uid]
         IN
         IF u.status # "active"
         THEN /\ Finish(w, Raise("user_blocked"))
              /\ app_users' = prov.users
              /\ clients' = prov.clients
         ELSE IF u.role = "client"
         THEN LET ens == IF GetClientIdForTelegramUser(prov.users, prov.clients, tid) = NULL
                         THEN EnsureClientUser(prov.users, prov.clients, tid, u.full_name)
                         ELSE prov
              IN /\ app_users' = ens.users
                 /\ clients' = ens.clients
                 /\ Goto(w, "cb_allowed",
                         [actor_user_id |-> uid, start_dt |-> start, end_dt |-> start + dur,
                          service_id |-> service_id,
                          client_id |-> GetClientIdForTelegramUser(ens.users, ens.clients, tid)])
         ELSE /\ app_users' = prov.users
              /\ clients' = prov.clients
              /\ IF u.role \notin {"coach", "admin"}
                 THEN Finish(w, Raise("forbidden_requires_coach"))
                 ELSE IF client_id = NULL
                 THEN Finish(w, Reject("client_id_required_for_coach"))
                 ELSE Goto(w, "cb_allowed",
                           [actor_user_id |-> uid, start_dt |-> start, end_dt |-> start + dur,
                            service_id |-> service_id, client_id |-> client_id])

\* the admissibility gate also refusing an interval that is blocked or booked
CB_SlotAllowed_ChecksBusy(w) ==
    /\ pc[w] = "cb_allowed"
    /\ UNCHANGED << tables, clock, call >>
    /\ IF call[w].coach_id \notin DOMAIN coaches
       THEN Finish(w, Raise("Coach no existe"))
       ELSE IF \/ ~ SlotAllowed(coaches, availability_rules, availability_exceptions,
                                call[w].coach_id, loc[w].start_dt, loc[w].end_dt)
               \/ BlockedHits(availability_exceptions, call[w].coach_id,
                              loc[w].start_dt, loc[w].end_dt) # {}
               \/ ConflictHits(bookings, call[w].coach_id,
                               loc[w].start_dt, loc[w].end_dt) # {}
       THEN Finish(w, Reject("outside_availability"))
       ELSE Goto(w, "cb_blocked", loc[w])

\* if not _slot_allowed(...): return outside_availability
CB_SlotAllowed(w) ==
    /\ pc[w] = "cb_allowed"
    /\ UNCHANGED << tables, clock, call >>
    /\ IF call[w].coach_id \notin DOMAIN coaches
       THEN Finish(w, Raise("Coach no existe"))
       ELSE IF ~ ZoneFound(CoachTz(coaches[call[w].coach_id]))
       THEN Finish(w, Raise("ZoneInfoNotFoundError"))
       ELSE IF ~ SlotAllowed(coaches, availability_rules, availability_exceptions,
                             call[w].coach_id, loc[w].start_dt, loc[w].end_dt)
       THEN Finish(w, Reject("outside_availability"))
       ELSE Goto(w, "cb_blocked", loc[w])

\* the transaction looking for a booking conflict before the blocked exceptions
CB_Blocked_ConflictFirst(w) ==
    /\ pc[w] = "cb_blocked"
    /\ UNCHANGED << tables, clock, call >>
    /\ LET hits == BlockedHits(availability_exceptions, call[w].coach_id,
                               loc[w].start_dt, loc[w].end_dt)
           busy == { i \in DOMAIN bookings :
                       /\ bookings[i].coach_id = call[w].coach_id
                       /\ bookings[i].status \in {"tentative", "confirmed"}
                       /\ bookings[i].start_at < loc[w].end_dt
                       /\ bookings[i].end_at > loc[w].start_dt }
       IN IF busy # {}
          THEN \E i \in busy :
                 Finish(w, [kind |-> "return", ok |-> FALSE,
                            error |-> "slot_not_available", conflict_booking_id |-> i])
          ELSE IF hits # {}
          THEN \E i \in hits :
                 Finish(w, [kind |-> "return", ok |-> FALSE,
                            error |-> "blocked_by_exception", exception_id |-> i])
          ELSE Goto(w, "cb_conflict", loc[w])

\* transaction, first statement: blocked exceptions
CB_Blocked(w) ==
    /\ pc[w] = "cb_blocked"
    /\ UNCHANGED << tables, clock, call >>
    /\ LET hits == BlockedHits(availability_exceptions, call[w].coach_id,
                               loc[w].start_dt, loc[w].end_dt)
       IN IF hits # {}
          THEN \E i \in hits :
                 Finish(w, [kind |-> "return", ok |-> FALSE,
                            error |-> "blocked_by_exception", exception_id |-> i])
          ELSE Goto(w, "cb_conflict", loc[w])

\* transaction, second statement: live bookings in conflict
CB_Conflict(w) ==
    /\ pc[w] = "cb_conflict"
    /\ UNCHANGED << tables, clock, call >>
    /\ LET hits == ConflictHits(bookings, call[w].coach_id,
                                loc[w].start_dt, loc[w].end_dt)
       IN IF hits # {}
          THEN \E i \in hits :
                 Finish(w, [kind |-> "return", ok |-> FALSE,
                            error |-> "slot_not_available", conflict_booking_id |-> i])
          ELSE Goto(w, "cb_insert", loc[w])

\* transaction, last statement and commit: INSERT INTO bookings
CB_Insert(w) ==
    /\ pc[w] = "cb_insert"
    /\ bookings' = Append(bookings, NewBookingRow(call[w].coach_id, loc[w]))
    /\ UNCHANGED << app_users, clients, coaches, services,
                    availability_rules, availability_exceptions, clock, call >>
    /\ Finish(w, [kind |-> "return", ok |-> TRUE, error |-> "",
                  booking_id |-> Len(bookings) + 1,
                  start_utc |-> loc[w].start_dt, end_utc |-> loc[w].end_dt])

(***************************************************************************)
(* cancel_booking                                                          *)
(*                                                                         *)
(* The row is read by a plain SELECT; the UPDATE is keyed by id alone, so  *)
(* it applies to the row whatever another call has committed in between.   *)
(***************************************************************************)
\* actor lookup, _require_active, own client / coach id, now
CX_Resolve(w, booking_id, reason, tid) ==
    /\ pc[w] = "idle"
    /\ call' = [call EXCEPT ![w] =
                  [op |-> "cancel_booking", telegram_user_id |-> tid,
                   booking_id |-> booking_id, reason |-> reason]]
    /\ UNCHANGED << tables, clock >>
    /\ IF tid = NULL
       THEN Finish(w, Raise("actor_telegram_user_id_required"))
       ELSE IF GetAppUserByTelegram(app_users, tid) = NULL
       THEN Finish(w, Raise("actor_not_registered"))
       ELSE LET uid == GetAppUserByTelegram(app_users, tid)
                u == app_users[uid]
            IN IF u.status # "active"
               THEN Finish(w, Raise("user_blocked"))
               ELSE Goto(w, "cx_check",
                         [actor_user_id |-> uid, role |-> u.role,
                          my_client_id |-> IF u.role = "client"
                              THEN GetClientIdForTelegramUser(app_users, clients, tid)
                              ELSE NULL,
                          my_coach_id |-> IF u.role = "coach"
                              THEN GetCoachIdForTelegramUser(app_users, coaches, tid)
                              ELSE NULL,
                          now |-> clock])

\* the transaction without the shortcut for an already cancelled row
CX_Check_NoShortcut(w) ==
    /\ pc[w] = "cx_check"
    /\ UNCHANGED << tables, clock, call >>
    /\ IF call[w].booking_id \notin DOMAIN bookings
       THEN Finish(w, Reject("not_found"))
       ELSE LET row == bookings[call[w].booking_id] IN
            IF /\ loc[w].role = "client"
               /\ (loc[w].my_client_id = NULL \/ loc[w].my_client_id # row.client_id)
            THEN Finish(w, Reject("forbidden_not_your_booking"))
            ELSE IF /\ loc[w].role = "coach"
                    /\ (loc[w].my_coach_id = NULL \/ loc[w].my_coach_id # row.coach_id)
            THEN Finish(w, Reject("forbidden_other_coach_booking"))
            ELSE Goto(w, "cx_update", loc[w])

\* the transaction letting any coach through, whose ever the booking is
CX_Check_AnyCoach(w) ==
    /\ pc[w] = "cx_check"
    /\ UNCHANGED << tables, clock, call >>
    /\ IF call[w].booking_id \notin DOMAIN bookings
       THEN Finish(w, Reject("not_found"))
       ELSE LET row == bookings[call[w].booking_id] IN
            IF row.status = "cancelled"
            THEN Finish(w, [kind |-> "return", ok |-> TRUE, error |-> "",
                            booking_id |-> call[w].booking_id, status |-> "cancelled"])
            ELSE IF /\ loc[w].role = "client"
                    /\ (loc[w].my_client_id = NULL \/ loc[w].my_client_id # row.client_id)
            THEN Finish(w, Reject("forbidden_not_your_booking"))
            ELSE IF loc[w].role = "coach" /\ loc[w].my_coach_id = NULL
            THEN Finish(w, Reject("forbidden_other_coach_booking"))
            ELSE Goto(w, "cx_update", loc[w])

\* transaction: read the row, idempotent shortcut, permissions
CX_Check(w) ==
    /\ pc[w] = "cx_check"
    /\ UNCHANGED << tables, clock, call >>
    /\ IF call[w].booking_id \notin DOMAIN bookings
       THEN Finish(w, Reject("not_found"))
       ELSE LET row == bookings[call[w].booking_id] IN
            IF row.status = "cancelled"
            THEN Finish(w, [kind |-> "return", ok |-> TRUE, error |-> "",
                            booking_id |-> call[w].booking_id, status |-> "cancelled"])
            ELSE IF /\ loc[w].role = "client"
                    /\ (loc[w].my_client_id = NULL \/ loc[w].my_client_id # row.client_id)
            THEN Finish(w, Reject("forbidden_not_your_booking"))
            ELSE IF /\ loc[w].role = "coach"
                    /\ (loc[w].my_coach_id = NULL \/ loc[w].my_coach_id # row.coach_id)
            THEN Finish(w, Reject("forbidden_other_coach_booking"))
            ELSE Goto(w, "cx_update", loc[w])

\* transaction: UPDATE bookings SET status='cancelled', ... WHERE id=:id; commit
CX_Update(w) ==
    /\ pc[w] = "cx_update"
    /\ bookings' = [bookings EXCEPT ![call[w].booking_id] =
                      [@ EXCEPT !.status = "cancelled",
                                !.cancelled_by_user_id = loc[w].actor_user_id,
                                !.cancelled_at = loc[w].now,
                                !.cancel_reason = call[w].reason]]
    /\ UNCHANGED << app_users, clients, coaches, services,
                    availability_rules, availability_exceptions, clock, call >>
    /\ Finish(w, [kind |-> "return", ok |-> TRUE, error |-> "",
                  booking_id |-> call[w].booking_id, status |-> "cancelled"])

(***************************************************************************)
(* Coach / admin guards shared by the schedule-editing tools               *)
(***************************************************************************)
\* the guards without the own-coach check
CoachScopeError_AnyCoach(users, chs, tid, cid) ==
    IF tid = NULL THEN "actor_telegram_user_id_required"
    ELSE IF GetAppUserByTelegram(users, tid) = NULL THEN "actor_not_registered"
    ELSE LET u == users[GetAppUserByTelegram(users, tid)] IN
         IF u.status # "active" THEN "user_blocked"
         ELSE IF u.role \notin {"coach", "admin"} THEN "forbidden_requires_coach"
         ELSE ""

\* actor lookup, _require_active, _require_coach_or_admin, own-coach check;
\* "" when the actor may edit coach cid, else the code raised
CoachScopeError(users, chs, tid, cid) ==
    IF tid = NULL THEN "actor_telegram_user_id_required"
    ELSE IF GetAppUserByTelegram(users, tid) = NULL THEN "actor_not_registered"
    ELSE LET u == users[GetAppUserByTelegram(users, tid)] IN
         IF u.status # "active" THEN "user_blocked"
         ELSE IF u.role \notin {"coach", "admin"} THEN "forbidden_requires_coach"
         ELSE IF /\ u.role = "coach"
                 /\ (\/ GetCoachIdForTelegramUser(users, chs, tid) = NULL
                     \/ GetCoachIdForTelegramUser(users, chs, tid) # cid)
         THEN "forbidden_other_coach"
         ELSE ""

(***************************************************************************)
(* set_availability_rules                                                  *)
(***************************************************************************)
DefaultSlotMinutes == 60

\* the inserted row for one rule dict of the request
RuleRow(cid, r) ==
    [coach_id |-> cid, weekday |-> r.weekday, start_time |-> r.start_time,
     end_time |-> r.end_time,
     slot_minutes |-> IF r.slot_minutes = NULL THEN DefaultSlotMinutes ELSE r.slot_minutes,
     valid_from |-> r.valid_from, valid_to |-> r.valid_to]

RECURSIVE RuleRows(_, _)
RuleRows(cid, rs) ==
    IF rs = << >> THEN << >>
    ELSE << RuleRow(cid, Head(rs)) >> \o RuleRows(cid, Tail(rs))

\* rows left by DELETE FROM availability_rules WHERE coach_id=:cid
DeleteRulesOf(rules, cid) ==
    LET keep(r) == r.coach_id # cid IN SelectSeq(rules, keep)

\* permission checks of the call
AR_Resolve(w, cid, rs, replace_all, tid) ==
    /\ pc[w] = "idle"
    /\ call' = [call EXCEPT ![w] =
                  [op |-> "set_availability_rules", telegram_user_id |-> tid,
                   coach_id |-> cid, rules |-> rs, replace_all |-> replace_all]]
    /\ UNCHANGED << tables, clock >>
    /\ IF CoachScopeError(app_users, coaches, tid, cid) # ""
       THEN Finish(w, Raise(CoachScopeError(app_users, coaches, tid, cid)))
       ELSE Goto(w, "ar_write", NoLoc)

\* int(r["weekday"]) raises for a rule dict that has no weekday (NullTime
\* stands for the absent value)
BadRule(r) == r.weekday = NullTime

\* the transaction with every statement committed on its own: a failing
\* insert leaves the delete and the earlier inserts in place
AR_Write_NoRollback(w) ==
    /\ pc[w] = "ar_write"
    /\ UNCHANGED << app_users, clients, coaches, services,
                    availability_exceptions, bookings, clock, call >>
    /\ LET rs == call[w].rules
           base == IF call[w].replace_all
                   THEN DeleteRulesOf(availability_rules, call[w].coach_id)
                   ELSE availability_rules
       IN IF \E k \in DOMAIN rs : BadRule(rs[k])
          THEN LET k == CHOOSE j \in DOMAIN rs :
                           BadRule(rs[j]) /\ \A i \in 1..(j - 1) : ~ BadRule(rs[i])
               IN /\ availability_rules' =
                        base \o RuleRows(call[w].coach_id, SubSeq(rs, 1, k - 1))
                  /\ Finish(w, Raise("KeyError"))
          ELSE /\ availability_rules' = base \o RuleRows(call[w].coach_id, rs)
               /\ Finish(w, [kind |-> "return", ok |-> TRUE, error |-> "",
                             coach_id |-> call[w].coach_id, inserted |-> Len(rs),
                             replace_all |-> call[w].replace_all])

\* one transaction (ENGINE.begin): optional delete-all, then the inserts; it
\* commits as a whole at the end of the block, and an insert that raises
\* rolls the whole of it back
AR_Write(w) ==
    /\ pc[w] = "ar_write"
    /\ UNCHANGED << app_users, clients, coaches, services,
                    availability_exceptions, bookings, clock, call >>
    /\ LET rs == call[w].rules
           base == IF call[w].replace_all
                   THEN DeleteRulesOf(availability_rules, call[w].coach_id)
                   ELSE availability_rules
       IN IF \E k \in DOMAIN rs : BadRule(rs[k])
          THEN /\ availability_rules' = availability_rules
               /\ Finish(w, Raise("KeyError"))
          ELSE /\ availability_rules' = base \o RuleRows(call[w].coach_id, rs)
               /\ Finish(w, [kind |-> "return", ok |-> TRUE, error |-> "",
                             coach_id |-> call[w].coach_id, inserted |-> Len(rs),
                             replace_all |-> call[w].replace_all])

(***************************************************************************)
(* add_availability_exception                                              *)
(***************************************************************************)
\* the range check refusing only an end before the start
AE_Resolve_AllowsEmpty(w, cid, type, start, end, tid) ==
    /\ pc[w] = "idle"
    /\ call' = [call EXCEPT ![w] =
                  [op |-> "add_availability_exception", telegram_user_id |-> tid,
                   coach_id |-> cid, type |-> type, start_utc |-> start, end_utc |-> end]]
    /\ UNCHANGED << tables, clock >>
    /\ IF CoachScopeError(app_users, coaches, tid, cid) # ""
       THEN Finish(w, Raise(CoachScopeError(app_users, coaches, tid, cid)))
       ELSE IF type \notin {"blocked", "extra"}
       THEN Finish(w, Raise("invalid_exception_type"))
       ELSE IF end < start
       THEN Finish(w, Raise("invalid_time_range"))
       ELSE Goto(w, "ae_insert", NoLoc)

\* permission checks, type and range validation
AE_Resolve(w, cid, type, start, end, tid) ==
    /\ pc[w] = "idle"
    /\ call' = [call EXCEPT ![w] =
                  [op |-> "add_availability_exception", telegram_user_id |-> tid,
                   coach_id |-> cid, type |-> type, start_utc |-> start, end_utc |-> end]]
    /\ UNCHANGED << tables, clock >>
    /\ IF CoachScopeError(app_users, coaches, tid, cid) # ""
       THEN Finish(w, Raise(CoachScopeError(app_users, coaches, tid, cid)))
       ELSE IF type \notin {"blocked", "extra"}
       THEN Finish(w, Raise("invalid_exception_type"))
       ELSE IF end <= start
       THEN Finish(w, Raise("invalid_time_range"))
       ELSE Goto(w, "ae_insert", NoLoc)

\* one transaction: INSERT INTO availability_exceptions
AE_Insert(w) ==
    /\ pc[w] = "ae_insert"
    /\ availability_exceptions' =
          Append(availability_exceptions,
                 [coach_id |-> call[w].coach_id, type |-> call[w].type,
                  start_at |-> call[w].start_utc, end_at |-> call[w].end_utc])
    /\ UNCHANGED << app_users, clients, coaches, services,
                    availability_rules, bookings, clock, call >>
    /\ Finish(w, [kind |-> "return", ok |-> TRUE, error |-> "",
                  exception_id |-> Len(availability_exceptions) + 1])

(***************************************************************************)
(* list_bookings                                                           *)
(***************************************************************************)
\* ids of the rows of bookings JOIN clients JOIN app_users the query selects
BookingIdsIn(bks, cls, users, cid, s, e, include_cancelled) ==
    { i \in DOMAIN bks :
        /\ bks[i].client_id \in DOMAIN cls
        /\ cls[bks[i].client_id].user_id \in DOMAIN users
        /\ bks[i].coach_id = cid
        /\ bks[i].start_at < e
        /\ bks[i].end_at > s
        /\ (include_cancelled \/ bks[i].status # "cancelled") }

\* orders in which ORDER BY b.start_at may return the selected rows
BookingOrders(bks, ids) ==
    { f \in Orderings(ids) :
        \A j, k \in DOMAIN f : j < k => bks[f[j]].start_at <= bks[f[k]].start_at }

\* one row of the answer
BookingOut(bks, cls, users, i) ==
    [id |-> i, start_at |-> bks[i].start_at, end_at |-> bks[i].end_at,
     status |-> bks[i].status, client_id |-> bks[i].client_id,
     service_id |-> bks[i].service_id,
     client_name |-> users[cls[bks[i].client_id].user_id].full_name]

\* permission checks, then the SELECT
LB_Call(w, cid, start, end, include_cancelled, tid) ==
    /\ pc[w] = "idle"
    /\ call' = [call EXCEPT ![w] =
                  [op |-> "list_bookings", telegram_user_id |-> tid, coach_id |-> cid,
                   start_utc |-> start, end_utc |-> end,
                   include_cancelled |-> include_cancelled]]
    /\ UNCHANGED << tables, clock >>
    /\ IF CoachScopeError(app_users, coaches, tid, cid) # ""
       THEN Finish(w, Raise(CoachScopeError(app_users, coaches, tid, cid)))
       ELSE \E ord \in BookingOrders(bookings,
                         BookingIdsIn(bookings, clients, app_users, cid, start, end,
                                      include_cancelled)) :
              Finish(w, [kind |-> "return", ok |-> TRUE, error |-> "",
                         rows |-> [k \in DOMAIN ord |->
                                     BookingOut(bookings, clients, app_users, ord[k])]])

(***************************************************************************)
(* list_my_bookings, list_coaches, list_services                           *)
(***************************************************************************)
\* the actor is looked up and, when it has no user row, provisioned as a
\* client; then _require_active, the role check, the client lookup and the
\* SELECT ... WHERE client_id = :clid AND start_at < :end AND end_at > :start
\* [AND status <> 'cancelled'] ORDER BY start_at
LM_Call(w, start, end, include_cancelled, tid) ==
    /\ pc[w] = "idle"
    /\ call' = [call EXCEPT ![w] =
                  [op |-> "list_my_bookings", telegram_user_id |-> tid,
                   start_utc |-> start, end_utc |-> end,
                   include_cancelled |-> include_cancelled]]
    /\ UNCHANGED << coaches, services, availability_rules, availability_exceptions,
                    bookings, clock >>
    /\ IF tid = NULL
       THEN /\ UNCHANGED << app_users, clients >>
            /\ Finish(w, Raise("actor_telegram_user_id_required"))
       ELSE
         LET known == GetAppUserByTelegram(app_users, tid) # NULL
             e     == EnsureClientUser(app_users, clients, tid, NullText)
             users == IF known THEN app_users ELSE e.users
             cls   == IF known THEN clients ELSE e.clients
             uid   == GetAppUserByTelegram(users, tid)
         IN /\ app_users' = users
            /\ clients' = cls
            /\ IF users[uid].status # "active" THEN Finish(w, Raise("user_blocked"))
               ELSE IF users[uid].role # "client"
               THEN Finish(w, Raise("forbidden_requires_client"))
               ELSE IF ClientIdOfUser(cls, uid) = NULL
               THEN Finish(w, Raise("client_not_found"))
               ELSE \E ord \in BookingOrders(bookings,
                                 { i \in DOMAIN bookings :
                                     /\ bookings[i].client_id = ClientIdOfUser(cls, uid)
                                     /\ bookings[i].start_at < end
                                     /\ bookings[i].end_at > start
                                     /\ \/ include_cancelled
                                        \/ bookings[i].status # "cancelled" }) :
                      Finish(w, [kind |-> "return", ok |-> TRUE, error |-> "",
                                 rows |-> [k \in DOMAIN ord |->
                                             [id |-> ord[k],
                                              coach_id |-> bookings[ord[k]].coach_id,
                                              start_at |-> bookings[ord[k]].start_at,
                                              end_at |-> bookings[ord[k]].end_at,
                                              status |-> bookings[ord[k]].status,
                                              service_id |-> bookings[ord[k]].service_id]]])

\* SELECT ... FROM coaches JOIN app_users [WHERE status = 'active'] ORDER BY c.id
LC_Call(w, active_only) ==
    /\ pc[w] = "idle"
    /\ call' = [call EXCEPT ![w] = [op |-> "list_coaches", active_only |-> active_only]]
    /\ UNCHANGED << tables, clock >>
    /\ Finish(w, [kind |-> "return", ok |-> TRUE, error |-> "",
                  rows |->
                     LET Shown(i) == \/ ~ active_only
                                     \/ app_users[coaches[i].user_id].status = "active"
                         ids == SelectSeq([i \in DOMAIN coaches |-> i], Shown)
                     IN [k \in DOMAIN ids |->
                           [coach_id |-> ids[k],
                            full_name |-> app_users[coaches[ids[k]].user_id].full_name,
                            timezone |-> coaches[ids[k]].timezone,
                            default_lesson_minutes |->
                               coaches[ids[k]].default_lesson_minutes]]])

\* SELECT ... FROM services [WHERE is_active = 1] ORDER BY id
LV_Call(w, active_only) ==
    /\ pc[w] = "idle"
    /\ call' = [call EXCEPT ![w] = [op |-> "list_services", active_only |-> active_only]]
    /\ UNCHANGED << tables, clock >>
    /\ Finish(w, [kind |-> "return", ok |-> TRUE, error |-> "",
                  rows |->
                     LET Shown(i) == ~ active_only \/ services[i].is_active
                         ids == SelectSeq([i \in DOMAIN services |-> i], Shown)
                     IN [k \in DOMAIN ids |->
                           [id |-> ids[k], name |-> services[ids[k]].name,
                            duration_minutes |-> services[ids[k]].duration_minutes,
                            is_active |-> services[ids[k]].is_active]]])

(***************************************************************************)
(* upsert_service                                                          *)
(***************************************************************************)
\* actor lookup, _require_active, _require_coach_or_admin
ServiceScopeError(users, tid) ==
    IF tid = NULL THEN "actor_telegram_user_id_required"
    ELSE IF GetAppUserByTelegram(users, tid) = NULL THEN "actor_not_registered"
    ELSE LET u == users[GetAppUserByTelegram(users, tid)] IN
         IF u.status # "active" THEN "user_blocked"
         ELSE IF u.role \notin {"coach", "admin"} THEN "forbidden_requires_coach"
         ELSE ""

\* the service written before the role of the actor is looked at
US_Resolve_WritesFirst(w, name, duration_minutes, is_active, tid) ==
    /\ pc[w] = "idle"
    /\ call' = [call EXCEPT ![w] =
                  [op |-> "upsert_service", telegram_user_id |-> tid, name |-> name,
                   duration_minutes |-> duration_minutes, is_active |-> is_active]]
    /\ UNCHANGED << app_users, clients, coaches, availability_rules,
                    availability_exceptions, bookings, clock >>
    /\ IF ServiceScopeError(app_users, tid) \in { "user_blocked", "forbidden_requires_coach" }
       THEN /\ services' = Append(services, [name |-> name,
                                             duration_minutes |-> duration_minutes,
                                             is_active |-> is_active])
            /\ Finish(w, Raise(ServiceScopeError(app_users, tid)))
       ELSE /\ services' = services
            /\ IF ServiceScopeError(app_users, tid) # ""
               THEN Finish(w, Raise(ServiceScopeError(app_users, tid)))
               ELSE Goto(w, "us_write", NoLoc)

\* permission checks of the call
US_Resolve(w, name, duration_minutes, is_active, tid) ==
    /\ pc[w] = "idle"
    /\ call' = [call EXCEPT ![w] =
                  [op |-> "upsert_service", telegram_user_id |-> tid, name |-> name,
                   duration_minutes |-> duration_minutes, is_active |-> is_active]]
    /\ UNCHANGED << tables, clock >>
    /\ IF ServiceScopeError(app_users, tid) # ""
       THEN Finish(w, Raise(ServiceScopeError(app_users, tid)))
       ELSE Goto(w, "us_write", NoLoc)

\* one transaction: INSERT ... ON DUPLICATE KEY UPDATE, the key being the name
US_Write(w) ==
    /\ pc[w] = "us_write"
    /\ LET row == [name |-> call[w].name, duration_minutes |-> call[w].duration_minutes,
                   is_active |-> call[w].is_active]
           hit == { i \in DOMAIN services : services[i].name = call[w].name }
       IN IF hit = { }
          THEN /\ services' = Append(services, row)
               /\ Finish(w, [kind |-> "return", ok |-> TRUE, error |-> "",
                             service_id |-> Len(services) + 1])
          ELSE LET i == CHOOSE j \in hit : TRUE
               IN /\ services' = [services EXCEPT ![i] = row]
                  /\ Finish(w, [kind |-> "return", ok |-> TRUE, error |-> "",
                                service_id |-> i])
    /\ UNCHANGED << app_users, clients, coaches, availability_rules,
                    availability_exceptions, bookings, clock, call >>

(***************************************************************************)
(* list_available_slots (_list_available_slots_impl)                       *)
(*                                                                         *)
(* The rows come back in the order the SELECT gives them: the rules by     *)
(* start_time (rows with equal start_time in any order), the exceptions in *)
(* any order.  rord and xord are the row ids in the order returned.        *)
(***************************************************************************)
DefaultLessonMinutes == 60

\* local wall-clock tick -> UTC tick (astimezone(timezone.utc))
ToUtc(tl, tzname) == tl - UtcOffset(tzname)

\* _get_service_duration: None unless the service exists and is active
GetServiceDuration(svcs, service_id) ==
    IF service_id = NULL THEN NULL
    ELSE IF service_id \in DOMAIN svcs /\ svcs[service_id].is_active
    THEN svcs[service_id].duration_minutes
    ELSE NULL

\* _get_service_duration(service_id) or int(coach["default_lesson_minutes"] or 60)
EffectiveDuration(chs, svcs, cid, service_id) ==
    IF GetServiceDuration(svcs, service_id) # NULL
    THEN GetServiceDuration(svcs, service_id)
    ELSE IF chs[cid].default_lesson_minutes # NULL
    THEN chs[cid].default_lesson_minutes
    ELSE DefaultLessonMinutes

\* ids of the rule rows selected for (coach, weekday of d, d)
RuleIdsFor(rules, cid, d) ==
    { i \in DOMAIN rules :
        /\ rules[i].coach_id = cid
        /\ rules[i].weekday = IsoWeekday(d)
        /\ (rules[i].valid_from = NullTime \/ rules[i].valid_from <= d)
        /\ (rules[i].valid_to = NullTime \/ rules[i].valid_to >= d) }

\* ids of the exception rows of the coach intersecting [lo, hi)
ExceptionIdsIn(excs, cid, lo, hi) ==
    { i \in DOMAIN excs :
        /\ excs[i].coach_id = cid
        /\ excs[i].start_at < hi
        /\ excs[i].end_at > lo }

\* orders in which ORDER BY start_time may return the selected rules
RuleOrders(rules, cid, d) ==
    { f \in Orderings(RuleIdsFor(rules, cid, d)) :
        \A j, k \in DOMAIN f : j < k => rules[f[j]].start_time <= rules[f[k]].start_time }

\* orders in which the exceptions of the day may be returned
ExceptionOrders(excs, cid, d, tzname) ==
    Orderings(ExceptionIdsIn(excs, cid, DayBoundsUTC(d, tzname)[1], DayBoundsUTC(d, tzname)[2]))

\* the bookings of the coach intersecting [lo, hi) whatever their status
BusyOf_AnyStatus(bks, cid, lo, hi) ==
    { << bks[i].start_at, bks[i].end_at >> : i \in
        { j \in DOMAIN bks :
            /\ bks[j].coach_id = cid
            /\ bks[j].start_at < hi
            /\ bks[j].end_at > lo } }

\* live bookings of the coach intersecting [lo, hi), as <<start, end>>
BusyOf(bks, cid, lo, hi) ==
    { << bks[i].start_at, bks[i].end_at >> : i \in
        { j \in DOMAIN bks :
            /\ bks[j].coach_id = cid
            /\ bks[j].status \in { "tentative", "confirmed" }
            /\ bks[j].start_at < hi
            /\ bks[j].end_at > lo } }

\* overlaps() with a closed test: a slot touching an interval is discarded too
Overlaps_Closed(s, e, others) ==
    \E o \in others : ~ (e < o[1] \/ s > o[2])

\* overlaps(rng, others): any(not (e <= os or s >= oe))
Overlaps(s, e, others) ==
    \E o \in others : ~ (e <= o[1] \/ s >= o[2])

\* one entry of the slot list
SlotOf(cur, dur, tzname) ==
    [start_local |-> cur, end_local |-> cur + dur,
     start_utc |-> ToUtc(cur, tzname), end_utc |-> ToUtc(cur + dur, tzname)]

\* the loop of add_window_local going on while the slot starts before the window ends
RECURSIVE WindowSlots_StartOnly(_, _, _, _, _, _, _)
WindowSlots_StartOnly(cur, end_local, step, dur, tzname, busy, blocked) ==
    IF cur < end_local
    THEN LET x == SlotOf(cur, dur, tzname)
             rest == WindowSlots_StartOnly(cur + step, end_local, step, dur, tzname, busy, blocked)
         IN IF Overlaps(x.start_utc, x.end_utc, busy) \/ Overlaps(x.start_utc, x.end_utc, blocked)
            THEN rest
            ELSE << x >> \o rest
    ELSE << >>

\* the loop of add_window_local: while cur + slot_td <= end_local
RECURSIVE WindowSlots(_, _, _, _, _, _, _)
WindowSlots(cur, end_local, step, dur, tzname, busy, blocked) ==
    IF cur + dur <= end_local
    THEN LET x == SlotOf(cur, dur, tzname)
             rest == WindowSlots(cur + step, end_local, step, dur, tzname, busy, blocked)
         IN IF Overlaps(x.start_utc, x.end_utc, busy) \/ Overlaps(x.start_utc, x.end_utc, blocked)
            THEN rest
            ELSE << x >> \o rest
    ELSE << >>

\* add_window_local stepping every window by the duration
AddWindowLocal_StepIsDuration(start_local, end_local, step_minutes, dur, tzname, busy, blocked) ==
    WindowSlots(start_local, end_local, dur, dur, tzname, busy, blocked)

\* add_window_local falling back to the rule default of 60 for a step below 1
AddWindowLocal_FallbackSixty(start_local, end_local, step_minutes, dur, tzname, busy, blocked) ==
    LET step0 == IF step_minutes # NULL THEN step_minutes ELSE dur
        step == IF step0 < 1 THEN DefaultSlotMinutes ELSE step0
    IN WindowSlots(start_local, end_local, step, dur, tzname, busy, blocked)

\* add_window_local: step = step_minutes or duration, duration again if below 1
AddWindowLocal(start_local, end_local, step_minutes, dur, tzname, busy, blocked) ==
    LET step0 == IF step_minutes # NULL THEN step_minutes ELSE dur
        step == IF step0 < 1 THEN dur ELSE step0
    IN WindowSlots(start_local, end_local, step, dur, tzname, busy, blocked)

\* for r in rules: add_window_local(combine(d, start_time), combine(d, end_time), ...)
RECURSIVE RuleWindows(_, _, _, _, _, _, _)
RuleWindows(rord, rules, d, dur, tzname, busy, blocked) ==
    IF rord = << >> THEN << >>
    ELSE LET r == rules[Head(rord)]
         IN AddWindowLocal(Combine(d, r.start_time), Combine(d, r.end_time),
                           IF r.slot_minutes # NULL THEN r.slot_minutes ELSE dur,
                           dur, tzname, busy, blocked)
            \o RuleWindows(Tail(rord), rules, d, dur, tzname, busy, blocked)

\* for s_utc, e_utc in extra: skip unless an end of the window falls on d
RECURSIVE ExtraWindows(_, _, _, _, _, _, _)
ExtraWindows(xord, excs, d, dur, tzname, busy, blocked) ==
    IF xord = << >> THEN << >>
    ELSE LET ex == excs[Head(xord)]
             s_local == ToLocal(ex.start_at, tzname)
             e_local == ToLocal(ex.end_at, tzname)
             rest == ExtraWindows(Tail(xord), excs, d, dur, tzname, busy, blocked)
         IN IF ex.type # "extra" THEN rest
            ELSE IF LocalDate(s_local) # d /\ LocalDate(e_local) # d THEN rest
            ELSE AddWindowLocal(s_local, e_local, dur, dur, tzname, busy, blocked) \o rest

\* x put after the entries of a sorted list that do not start later than it
RECURSIVE InsertSlot(_, _)
InsertSlot(sorted, x) ==
    IF sorted = << >> THEN << x >>
    ELSE IF Head(sorted).start_utc <= x.start_utc
    THEN << Head(sorted) >> \o InsertSlot(Tail(sorted), x)
    ELSE << x >> \o sorted

\* the slot list returned in the order it was built
SortSlots_None(slots) == slots

\* slots.sort(key=start_utc): stable; the key is the ISO text of a naive UTC
\* datetime, whose text order is the order of the instants
RECURSIVE SortSlots(_)
SortSlots(slots) ==
    IF slots = << >> THEN << >>
    ELSE InsertSlot(SortSlots(SubSeq(slots, 1, Len(slots) - 1)), slots[Len(slots)])

\* the dict _list_available_slots_impl returns for an existing coach
ListAvailableSlots(chs, svcs, rules, excs, bks, cid, d, service_id, rord, xord) ==
    LET tzname == CoachTz(chs[cid])
        dur == EffectiveDuration(chs, svcs, cid, service_id)
        bounds == DayBoundsUTC(d, tzname)
        busy == BusyOf(bks, cid, bounds[1], bounds[2])
        blocked == { << excs[i].start_at, excs[i].end_at >> : i \in
                       { j \in ExceptionIdsIn(excs, cid, bounds[1], bounds[2]) :
                           excs[j].type = "blocked" } }
    IN [kind |-> "return", ok |-> TRUE, error |-> "",
        coach_id |-> cid, day |-> d, timezone |-> tzname, duration_minutes |-> dur,
        slots |-> SortSlots(RuleWindows(rord, rules, d, dur, tzname, busy, blocked)
                            \o ExtraWindows(xord, excs, d, dur, tzname, busy, blocked))]

\* list_available_slots: coach, service, then the three SELECTs of one connection
LS_Call(w, cid, d, service_id) ==
    /\ pc[w] = "idle"
    /\ call' = [call EXCEPT ![w] =
                  [op |-> "list_available_slots", coach_id |-> cid, day |-> d,
                   service_id |-> service_id]]
    /\ UNCHANGED << tables, clock >>
    /\ IF cid \notin DOMAIN coaches
       THEN Finish(w, Raise("Coach no existe"))
       ELSE IF ~ ZoneFound(CoachTz(coaches[cid]))
       THEN Finish(w, Raise("ZoneInfoNotFoundError"))
       ELSE \E rord \in RuleOrders(availability_rules, cid, d),
               xord \in ExceptionOrders(availability_exceptions, cid, d, CoachTz(coaches[cid])) :
              Finish(w, ListAvailableSlots(coaches, services, availability_rules,
                                           availability_exceptions, bookings,
                                           cid, d, service_id, rord, xord))

(***************************************************************************)
(* list_available_classes_week                                             *)
(*                                                                         *)
(* Every day of the loop is one call of _list_available_slots_impl, which  *)
(* opens its own connections: a day is a step.                             *)
(***************************************************************************)
\* slots[:max_slots_per_day]
Prefix(slots, n) == IF Len(slots) > n THEN SubSeq(slots, 1, n) ELSE slots

\* the body of the loop with a day cut to the limit without raising truncated
WeekStep_SilentCut(l, c, payload) ==
    LET slots == Prefix(payload.slots, c.max_slots_per_day)
        keep == slots # << >> \/ ~ c.only_non_empty_days
        total == IF keep THEN l.total_slots + Len(slots) ELSE l.total_slots
        full == keep /\ total >= c.max_total_slots
    IN [d |-> IF full THEN l.d ELSE l.d + 1,
        week_start |-> l.week_start, week_end |-> l.week_end, start_day |-> l.start_day,
        days |-> IF keep
                 THEN Append(l.days, [day |-> l.d,
                                      duration_minutes |-> payload.duration_minutes,
                                      timezone |-> payload.timezone, slots |-> slots])
                 ELSE l.days,
        total_slots |-> total,
        truncated |-> l.truncated \/ full,
        stop |-> full]

\* the body of the loop appending every day, empty or not
WeekStep_KeepsEmpty(l, c, payload) ==
    LET cut == Len(payload.slots) > c.max_slots_per_day
        slots == Prefix(payload.slots, c.max_slots_per_day)
        total == l.total_slots + Len(slots)
        full == total >= c.max_total_slots
    IN [d |-> IF full THEN l.d ELSE l.d + 1,
        week_start |-> l.week_start, week_end |-> l.week_end, start_day |-> l.start_day,
        days |-> Append(l.days, [day |-> l.d,
                                 duration_minutes |-> payload.duration_minutes,
                                 timezone |-> payload.timezone, slots |-> slots]),
        total_slots |-> total,
        truncated |-> l.truncated \/ cut \/ full,
        stop |-> full]

\* the body of the loop for day l.d: locals after it; stop when it breaks
WeekStep(l, c, payload) ==
    LET cut == Len(payload.slots) > c.max_slots_per_day
        slots == Prefix(payload.slots, c.max_slots_per_day)
        keep == slots # << >> \/ ~ c.only_non_empty_days
        total == IF keep THEN l.total_slots + Len(slots) ELSE l.total_slots
        full == keep /\ total >= c.max_total_slots
    IN [d |-> IF full THEN l.d ELSE l.d + 1,
        week_start |-> l.week_start, week_end |-> l.week_end, start_day |-> l.start_day,
        days |-> IF keep
                 THEN Append(l.days, [day |-> l.d,
                                      duration_minutes |-> payload.duration_minutes,
                                      timezone |-> payload.timezone, slots |-> slots])
                 ELSE l.days,
        total_slots |-> total,
        truncated |-> l.truncated \/ cut \/ full,
        stop |-> full]

\* the dict list_available_classes_week returns
WeekResult(c, l, tzname) ==
    [kind |-> "return", ok |-> TRUE, error |-> "",
     coach_id |-> c.coach_id, timezone |-> tzname,
     week_start |-> l.week_start, week_end |-> l.week_end, start_day |-> l.start_day,
     days |-> l.days, total_slots |-> l.total_slots, truncated |-> l.truncated]

\* limits check, coach, today and the ISO week in the coach's timezone
LW_Start(w, cid, service_id, include_past_days, only_non_empty_days, max_slots_per_day, max_total_slots) ==
    /\ pc[w] = "idle"
    /\ call' = [call EXCEPT ![w] =
                  [op |-> "list_available_classes_week", coach_id |-> cid,
                   service_id |-> service_id, include_past_days |-> include_past_days,
                   only_non_empty_days |-> only_non_empty_days,
                   max_slots_per_day |-> max_slots_per_day,
                   max_total_slots |-> max_total_slots]]
    /\ UNCHANGED << tables, clock >>
    /\ IF max_slots_per_day < 1
       THEN Finish(w, Raise("max_slots_per_day must be >= 1"))
       ELSE IF max_total_slots < 1
       THEN Finish(w, Raise("max_total_slots must be >= 1"))
       ELSE IF cid \notin DOMAIN coaches
       THEN Finish(w, Raise("Coach no existe"))
       ELSE IF ~ ZoneFound(CoachTz(coaches[cid]))
       THEN Finish(w, Raise("ZoneInfoNotFoundError"))
       ELSE LET today_local == LocalDate(ToLocal(clock, CoachTz(coaches[cid])))
                week_start == today_local - (IsoWeekday(today_local) - 1)
                week_end == week_start + 6
                start_day0 == IF include_past_days THEN week_start ELSE today_local
                start_day == IF start_day0 > week_end THEN week_end ELSE start_day0
            IN Goto(w, "lw_day",
                    [d |-> start_day, week_start |-> week_start, week_end |-> week_end,
                     start_day |-> start_day, days |-> << >>, total_slots |-> 0,
                     truncated |-> FALSE, stop |-> FALSE])

\* one turn of the while loop; the call returns after the last day or at the break
LW_Day(w) ==
    /\ pc[w] = "lw_day"
    /\ UNCHANGED << tables, clock, call >>
    /\ LET c == call[w]
           tzname == CoachTz(coaches[c.coach_id])
       IN \E rord \in RuleOrders(availability_rules, c.coach_id, loc[w].d),
             xord \in ExceptionOrders(availability_exceptions, c.coach_id, loc[w].d, tzname) :
            LET l == WeekStep(loc[w], c,
                              ListAvailableSlots(coaches, services, availability_rules,
                                                 availability_exceptions, bookings,
                                                 c.coach_id, loc[w].d, c.service_id,
                                                 rord, xord))
            IN IF l.stop \/ l.d > l.week_end
               THEN Finish(w, WeekResult(c, l, tzname))
               ELSE Goto(w, "lw_day", l)

(***************************************************************************)
(* Environment: time passes                                                *)
(***************************************************************************)
Tick ==
    /\ clock < MaxClock
    /\ clock' = clock + 1
    /\ UNCHANGED << tables, pc, call, loc, ret, infra >>

(***************************************************************************)
(* Arguments the callers send                                              *)
(***************************************************************************)
UnknownCoach == Len(InitCoaches) + 1

RuleIn(wd, st, en, step) ==
    [weekday |-> wd, start_time |-> st, end_time |-> en, slot_minutes |-> step,
     valid_from |-> NullTime, valid_to |-> NullTime]

(***************************************************************************)
(* Spec: the calls are served concurrently, their steps interleave.  The   *)
(* callers are two clients, the coach and the admin, on coach 1's agenda.  *)
(***************************************************************************)
\* <<actor, start, duration>> of the create_booking requests
ConcCreateArgs == { TidClientA, TidClientB } \X { << 0, 1 >>, << 0, 2 >>, << 1, 1 >> }

\* <<booking, reason, actor>> of the cancel_booking requests
ConcCancelArgs ==
    (1..2) \X { << "ill", TidClientA >>, << "ill", TidClientB >>,
                << "rain", TidCoach1 >>, << "rain", TidAdmin >> }

\* <<coach, rules, actor>> of the set_availability_rules requests
ConcRuleArgs ==
    { << 1, << >>, TidCoach1 >>,
      << 1, << RuleIn(IsoWeekday(0), 1, 2, NULL) >>, TidCoach1 >>,
      << 1, << RuleIn(IsoWeekday(0), 2, 3, 1), RuleIn(NullTime, 1, 2, 1) >>, TidCoach1 >>,
      << 2, << RuleIn(IsoWeekday(0), 1, 2, 1) >>, TidAdmin >> }

\* <<type, start, end>> of the add_availability_exception requests
ConcExceptionArgs == { << "blocked", 0, 1 >>, << "blocked", 1, 2 >>, << "extra", 2, 3 >> }

Next ==
    \/ \E w \in Workers, a \in ConcCreateArgs :
          CB_Resolve(w, a[1], 1, a[2][1], a[2][2], NULL, NULL)
    \/ \E w \in Workers : CB_SlotAllowed(w)
    \/ \E w \in Workers : CB_Blocked(w)
    \/ \E w \in Workers : CB_Conflict(w)
    \/ \E w \in Workers : CB_Insert(w)
    \/ \E w \in Workers, a \in ConcCancelArgs : CX_Resolve(w, a[1], a[2][1], a[2][2])
    \/ \E w \in Workers : CX_Check(w)
    \/ \E w \in Workers : CX_Update(w)
    \/ \E w \in Workers, a \in ConcRuleArgs : AR_Resolve(w, a[1], a[2], TRUE, a[3])
    \/ \E w \in Workers : AR_Write(w)
    \/ \E w \in Workers, a \in ConcExceptionArgs :
          AE_Resolve(w, 1, a[1], a[2], a[3], TidCoach1)
    \/ \E w \in Workers : AE_Insert(w)
    \/ Tick

Spec == Init /\ [][Next]_vars

(***************************************************************************)
(* SeqSpec: the calls are served one at a time, worker k serving the k-th  *)
(* call to completion before the next one starts; every kind of actor and  *)
(* of argument is sent.                                                    *)
(***************************************************************************)
\* worker w is the next to serve a call and no call is under way
Turn(w) ==
    /\ \A v \in Workers : v < w => pc[v] = "done"
    /\ \A v \in Workers : v >= w => pc[v] = "idle"

ActorTids == { NULL, TidClientA, TidClientB, TidCoach1, TidCoach2, TidAdmin,
               TidBlocked, TidBareClient, TidUnknown }

\* <<actor, clientId argument>> of the create_booking requests
CreateActorArgs ==
    { << NULL, NULL >>, << TidClientA, NULL >>, << TidClientA, 2 >>,
      << TidClientB, NULL >>, << TidCoach1, NULL >>, << TidCoach1, 2 >>,
      << TidAdmin, 1 >>, << TidBlocked, NULL >>, << TidBareClient, NULL >>,
      << TidUnknown, NULL >> }

\* <<coach, start, duration>> of the create_booking requests
CreateSlotArgs ==
    { << 1, 0, 1 >>, << 1, 1, 1 >>, << 1, 0, 2 >>, << 1, 2, 1 >>,
      << 2, 0, 1 >>, << UnknownCoach, 0, 1 >> }

SeqCreateArgs ==
    (CreateActorArgs \X { << 1, 1, 1 >> })
      \cup ({ << TidClientA, NULL >> } \X CreateSlotArgs)
      \cup { << << TidAdmin, 1 >>, << 2, 0, 1 >> >> }

\* <<booking, reason, actor>> of the cancel_booking requests
SeqCancelArgs ==
    { << 1, "rain", tid >> : tid \in ActorTids }
      \cup { << 1, "ill", TidAdmin >>, << 1, "ill", TidClientB >>,
             << 2, "rain", TidAdmin >>, << 2, "rain", TidClientA >>,
             << 3, "rain", TidAdmin >> }

\* <<coach, rules, replace_all, actor>> of the set_availability_rules requests
SeqRuleArgs ==
    { << 1, << >>, TRUE, TidCoach1 >>,
      << 1, << RuleIn(IsoWeekday(0), 0, 2, NULL) >>, TRUE, TidCoach1 >>,
      << 2, << RuleIn(IsoWeekday(0), 0, 2, 1) >>, FALSE, TidAdmin >>,
      << 2, << >>, TRUE, TidCoach1 >>,
      << 1, << >>, TRUE, TidClientA >> }

\* <<coach, type, start, end, actor>> of the add_availability_exception requests
SeqExceptionArgs ==
    { << 1, "blocked", 0, 1, TidCoach1 >>, << 1, "blocked", 1, 2, TidCoach1 >>,
      << 1, "blocked", 2, 4, TidAdmin >>, << 2, "extra", 0, 1, TidAdmin >>,
      << 1, "holiday", 0, 1, TidCoach1 >>, << 1, "extra", 1, 1, TidCoach1 >> }

\* time passes between two calls (no step of a call but its first reads the clock)
SeqTick ==
    /\ \A w \in Workers : pc[w] \in { "idle", "done" }
    /\ Tick

SeqNext ==
    \/ \E w \in Workers :
          /\ Turn(w)
          /\ \E a \in SeqCreateArgs :
                CB_Resolve(w, a[1][1], a[2][1], a[2][2], a[2][3], NULL, a[1][2])
    \/ \E w \in Workers : CB_SlotAllowed(w)
    \/ \E w \in Workers : CB_Blocked(w)
    \/ \E w \in Workers : CB_Conflict(w)
    \/ \E w \in Workers : CB_Insert(w)
    \/ \E w \in Workers :
          /\ Turn(w)
          /\ \E a \in SeqCancelArgs : CX_Resolve(w, a[1], a[2], a[3])
    \/ \E w \in Workers : CX_Check(w)
    \/ \E w \in Workers : CX_Update(w)
    \/ \E w \in Workers :
          /\ Turn(w)
          /\ \E a \in SeqRuleArgs : AR_Resolve(w, a[1], a[2], a[3], a[4])
    \/ \E w \in Workers : AR_Write(w)
    \/ \E w \in Workers :
          /\ Turn(w)
          /\ \E a \in SeqExceptionArgs : AE_Resolve(w, a[1], a[2], a[3], a[4], a[5])
    \/ \E w \in Workers : AE_Insert(w)
    \/ SeqTick

SeqSpec == Init /\ [][SeqNext]_vars

(***************************************************************************)
(* QuerySpec: the agenda of coach 1 as earlier set_availability_rules,     *)
(* add_availability_exception and create_booking calls may have left it,   *)
(* then listings and bookings served one at a time.                        *)
(***************************************************************************)
Exc(cid, type, start, end) ==
    [coach_id |-> cid, type |-> type, start_at |-> start, end_at |-> end]

\* one window, local ticks 1..5 of the weekday of day 0, a slot every tick
ScenarioRules == << Rule(1, IsoWeekday(0), 1, 5, 1) >>

\* a blocked exception on local ticks 2..3 of day 0
ScenarioBlocked == << Exc(1, "blocked", ToUtc(Combine(0, 2), DefaultTimezone),
                                        ToUtc(Combine(0, 3), DefaultTimezone)) >>

\* an extra window from the last but one tick of day 0 to tick 2 of day 1
NightExtra == Exc(1, "extra", ToUtc(Combine(0, TicksPerDay - 2), DefaultTimezone),
                              ToUtc(Combine(1, 2), DefaultTimezone))

\* a confirmed booking of client 1 with coach 1 on UTC [s, e)
BookedRow(s, e) == [ConfirmedRow EXCEPT !.start_at = s, !.end_at = e]

QRuleSets ==
    { ScenarioRules,
      << Rule(1, IsoWeekday(0), 1, 3, 1), Rule(1, IsoWeekday(0), 1, 5, 2) >>,
      << >>,
      << Rule(1, IsoWeekday(1), 1, 3, 1), Rule(1, IsoWeekday(0), 3, 5, DefaultSlotMinutes),
         [Rule(1, IsoWeekday(0), 0, 2, 1) EXCEPT !.valid_from = 1] >> }

QExceptionSets ==
    { << >>,
      ScenarioBlocked,
      << Exc(1, "extra", 0 - 1, 1), Exc(1, "extra", 0, 2) >>,
      << NightExtra >>,
      << Exc(1, "blocked", 0, 1), Exc(1, "extra", 0 - 1, 1), Exc(2, "extra", 0, 2) >> }

QBookingSets ==
    { << >>,
      << TentativeRow >>,
      << ConfirmedRow, [BookedRow(2, 3) EXCEPT !.status = "cancelled"] >>,
      << BookedRow(NightExtra.start_at, NightExtra.start_at + 1) >> }

QInit ==
    /\ app_users = InitUsers
    /\ clients = InitClients
    /\ coaches = InitCoaches
    /\ services = << [name |-> "doble", duration_minutes |-> 2, is_active |-> TRUE] >>
    /\ availability_rules \in QRuleSets
    /\ availability_exceptions \in QExceptionSets
    /\ bookings \in QBookingSets
    /\ clock = 0
    /\ pc = [w \in Workers |-> "idle"]
    /\ call = [w \in Workers |-> NoCall]
    /\ loc = [w \in Workers |-> NoLoc]
    /\ ret = [w \in Workers |-> NoRet]
    /\ InfraInit

\* <<coach, day, service>> of the list_available_slots requests
QDayArgs ==
    { << 1, 0, NULL >>, << 1, 0, 1 >>, << 1, 1, NULL >>, << 2, 0, NULL >>,
      << UnknownCoach, 0, NULL >> }

\* <<coach, include_past_days, only_non_empty_days, max_slots_per_day, max_total_slots>>
QWeekArgs ==
    { << 1, FALSE, TRUE, 2, 3 >>, << 1, TRUE, FALSE, 4, 20 >>, << 1, FALSE, TRUE, 4, 2 >>,
      << 1, FALSE, TRUE, 0, 20 >>, << 1, FALSE, TRUE, 1, 0 >>,
      << UnknownCoach, FALSE, TRUE, 4, 20 >> }

\* <<start, duration>> of the create_booking requests of client A with coach 1
QCreateArgs ==
    { << 0, 1 >>, << 1, 1 >>, << 0 - 1, 1 >>, << NightExtra.start_at, 1 >>,
      << NightExtra.start_at + 1, 2 >> }

QNext ==
    \/ \E w \in Workers :
          /\ Turn(w)
          /\ \E a \in QDayArgs : LS_Call(w, a[1], a[2], a[3])
    \/ \E w \in Workers :
          /\ Turn(w)
          /\ \E a \in QWeekArgs : LW_Start(w, a[1], NULL, a[2], a[3], a[4], a[5])
    \/ \E w \in Workers : LW_Day(w)
    \/ \E w \in Workers :
          /\ Turn(w)
          /\ \E a \in QCreateArgs : CB_Resolve(w, TidClientA, 1, a[1], a[2], NULL, NULL)
    \/ \E w \in Workers : CB_SlotAllowed(w)
    \/ \E w \in Workers : CB_Blocked(w)
    \/ \E w \in Workers : CB_Conflict(w)
    \/ \E w \in Workers : CB_Insert(w)

QuerySpec == QInit /\ [][QNext]_vars

(***************************************************************************)
(* AccessSpec: every kind of actor calls every tool that is guarded by the *)
(* actor's role, on its own agenda and on another coach's, the calls being *)
(* served one at a time.                                                   *)
(***************************************************************************)
AInit ==
    /\ app_users = InitUsers
    /\ clients = InitClients
    /\ coaches = InitCoaches
    /\ services = << >>
    /\ availability_rules = InitRules
    /\ availability_exceptions = << >>
    /\ bookings = << ConfirmedRow >>
    /\ clock = 0
    /\ pc = [w \in Workers |-> "idle"]
    /\ call = [w \in Workers |-> NoCall]
    /\ loc = [w \in Workers |-> NoLoc]
    /\ ret = [w \in Workers |-> NoRet]
    /\ InfraInit

AccActors == { NULL, TidClientA, TidCoach1, TidCoach2, TidAdmin, TidBlocked, TidUnknown }

\* <<actor, coach>> of the calls of the coach-scoped tools
AccScopes ==
    (AccActors \X { 1 }) \cup ({ TidClientA, TidCoach1, TidCoach2, TidAdmin } \X { 2 })

\* <<coach, rules, replace_all, actor>> of the set_availability_rules requests
AccRuleArgs ==
    { << a[2], << RuleIn(IsoWeekday(0), 0, 2, 1) >>, TRUE, a[1] >> : a \in AccScopes }
      \cup { << 1, << RuleIn(IsoWeekday(0), 3, 1, 1) >>, TRUE, TidCoach1 >>,
             << 1, << RuleIn(IsoWeekday(0), 1, 2, 1), RuleIn(8, 2, 2, 1) >>, FALSE, TidCoach1 >>,
             << 1, << RuleIn(IsoWeekday(1), 1, 2, NULL), RuleIn(NullTime, 1, 2, 1) >>,
                TRUE, TidAdmin >> }

\* <<coach, type, start, end, actor>> of the add_availability_exception requests
AccExceptionArgs ==
    { << a[2], "blocked", 0, 1, a[1] >> : a \in AccScopes }
      \cup { << 1, "holiday", 0, 1, TidCoach1 >>, << 1, "extra", 2, 2, TidCoach1 >>,
             << 1, "blocked", 3, 2, TidAdmin >>, << 1, "extra", 2, 3, TidCoach1 >> }

\* <<coach, start, end, include_cancelled, actor>> of the list_bookings requests
AccListArgs ==
    { << a[2], 0, 3, FALSE, a[1] >> : a \in AccScopes }
      \cup { << 1, 0, 3, TRUE, TidAdmin >> }

\* <<name, duration, is_active, actor>> of the upsert_service requests
AccServiceArgs ==
    { << "doble", 2, TRUE, tid >> : tid \in AccActors }
      \cup { << "doble", 1, FALSE, TidAdmin >> }

\* <<actor, start, duration>> of the create_booking requests with coach 1
AccCreateArgs ==
    { << tid, 1, 1 >> : tid \in AccActors }
      \cup { << TidClientA, 1, 0 >>, << TidClientA, 2, 0 - 1 >> }

\* <<booking, reason, actor>> of the cancel_booking requests
AccCancelArgs == { << 1, "rain", tid >> : tid \in AccActors \cup { TidClientB } }

AccNext ==
    \/ \E w \in Workers :
          /\ Turn(w)
          /\ \E a \in AccRuleArgs : AR_Resolve(w, a[1], a[2], a[3], a[4])
    \/ \E w \in Workers : AR_Write(w)
    \/ \E w \in Workers :
          /\ Turn(w)
          /\ \E a \in AccExceptionArgs : AE_Resolve(w, a[1], a[2], a[3], a[4], a[5])
    \/ \E w \in Workers : AE_Insert(w)
    \/ \E w \in Workers :
          /\ Turn(w)
          /\ \E a \in AccListArgs : LB_Call(w, a[1], a[2], a[3], a[4], a[5])
    \/ \E w \in Workers :
          /\ Turn(w)
          /\ \E a \in AccServiceArgs : US_Resolve(w, a[1], a[2], a[3], a[4])
    \/ \E w \in Workers : US_Write(w)
    \/ \E w \in Workers :
          /\ Turn(w)
          /\ \E a \in AccCreateArgs : CB_Resolve(w, a[1], 1, a[2], a[3], NULL, NULL)
    \/ \E w \in Workers : CB_SlotAllowed(w)
    \/ \E w \in Workers : CB_Blocked(w)
    \/ \E w \in Workers : CB_Conflict(w)
    \/ \E w \in Workers : CB_Insert(w)
    \/ \E w \in Workers :
          /\ Turn(w)
          /\ \E a \in AccCancelArgs : CX_Resolve(w, a[1], a[2], a[3])
    \/ \E w \in Workers : CX_Check(w)
    \/ \E w \in Workers : CX_Update(w)
    \/ \E w \in Workers :
          /\ Turn(w)
          /\ \E tid \in AccActors, b \in BOOLEAN :
                (b => tid = TidClientA) /\ LM_Call(w, 0, 2, b, tid)
    \/ \E w \in Workers :
          /\ Turn(w)
          /\ \E b \in BOOLEAN : LC_Call(w, b)
    \/ \E w \in Workers :
          /\ Turn(w)
          /\ \E b \in BOOLEAN : LV_Call(w, b)
    \/ \E w \in Workers :
          /\ Turn(w)
          /\ LS_Call(w, 1, 0, NULL)
    \/ \E w \in Workers :
          /\ Turn(w)
          /\ LW_Start(w, 1, NULL, FALSE, TRUE, 2, 3)
    \/ \E w \in Workers : LW_Day(w)

AccessSpec == AInit /\ [][AccNext]_vars

(***************************************************************************)
(* DaySpec: four agendas, the one of coach 3 stored with a misspelt zone   *)
(* name and the one of coach 4 with an empty one; rules stepped in every   *)
(* way (slot_minutes above, equal to and below the duration, NULL and      *)
(* negative); cancellations, listings and bookings served one at a time.   *)
(***************************************************************************)
DUsers ==
    InitUsers \o
    << [telegram_user_id |-> Tid(9), role |-> "coach", status |-> "active", full_name |-> "Gus"],
       [telegram_user_id |-> Tid(10), role |-> "coach", status |-> "active", full_name |-> "Hugo"] >>

DCoaches ==
    InitCoaches \o
    << [user_id |-> 8, timezone |-> "Europe/Madird", default_lesson_minutes |-> 1],
       [user_id |-> 9, timezone |-> "", default_lesson_minutes |-> 1] >>

\* the rules of coaches 3 and 4: the weekday of day 0, local ticks 1..3
OtherRules == << Rule(3, IsoWeekday(0), 1, 3, 1), Rule(4, IsoWeekday(0), 1, 3, 1) >>

\* a NULL slot_minutes (the value 0 of the model) is a row written by hand
DRuleSets ==
    { << Rule(1, IsoWeekday(0), 1, 5, 2) >> \o OtherRules,
      << Rule(1, IsoWeekday(0), 0, 5, NULL) >> \o OtherRules,
      << Rule(1, IsoWeekday(0), 1, 4, 0 - 1), Rule(1, IsoWeekday(0), 2, 5, 3) >> \o OtherRules }

\* exceptions lying within local day 0 of coach 1
DExceptionSets ==
    { << >>,
      << Exc(1, "extra", ToUtc(Combine(0, 3), DefaultTimezone),
                         ToUtc(Combine(0, TicksPerDay - 1), DefaultTimezone)) >>,
      << Exc(1, "blocked", ToUtc(Combine(0, 2), DefaultTimezone),
                           ToUtc(Combine(0, 3), DefaultTimezone)) >> }

DBookingSets ==
    { << >>,
      << ConfirmedRow >>,
      << BookedRow(1, 3), [ConfirmedRow EXCEPT !.status = "cancelled"] >> }

DInit ==
    /\ app_users = DUsers
    /\ clients = InitClients
    /\ coaches = DCoaches
    /\ services = << [name |-> "doble", duration_minutes |-> 2, is_active |-> TRUE] >>
    /\ availability_rules \in DRuleSets
    /\ availability_exceptions \in DExceptionSets
    /\ bookings \in DBookingSets
    /\ clock = 0
    /\ pc = [w \in Workers |-> "idle"]
    /\ call = [w \in Workers |-> NoCall]
    /\ loc = [w \in Workers |-> NoLoc]
    /\ ret = [w \in Workers |-> NoRet]
    /\ InfraInit

\* <<coach, day, service>> of the list_available_slots requests
DDayArgs ==
    { << 1, 0, NULL >>, << 1, 0, 1 >>, << 1, 1, NULL >>, << 3, 0, NULL >>, << 4, 0, NULL >> }

\* <<coach, include_past_days, only_non_empty_days, max_slots_per_day, max_total_slots>>
DWeekArgs ==
    { << 1, FALSE, TRUE, 4, 20 >>, << 3, FALSE, TRUE, 4, 20 >>, << 4, TRUE, FALSE, 4, 20 >> }

\* <<coach, start, duration>> of the create_booking requests of client A
DCreateArgs == { << 1, 0, 1 >>, << 1, 1, 1 >>, << 3, 0, 1 >>, << 4, 0, 1 >> }

\* <<booking, reason, actor>> of the cancel_booking requests
DCancelArgs ==
    { << 1, "rain", TidClientA >>, << 1, "rain", TidAdmin >>, << 2, "ill", TidAdmin >> }

DNext ==
    \/ \E w \in Workers :
          /\ Turn(w)
          /\ \E a \in DDayArgs : LS_Call(w, a[1], a[2], a[3])
    \/ \E w \in Workers :
          /\ Turn(w)
          /\ \E a \in DWeekArgs : LW_Start(w, a[1], NULL, a[2], a[3], a[4], a[5])
    \/ \E w \in Workers : LW_Day(w)
    \/ \E w \in Workers :
          /\ Turn(w)
          /\ \E a \in DCreateArgs : CB_Resolve(w, TidClientA, a[1], a[2], a[3], NULL, NULL)
    \/ \E w \in Workers : CB_SlotAllowed(w)
    \/ \E w \in Workers : CB_Blocked(w)
    \/ \E w \in Workers : CB_Conflict(w)
    \/ \E w \in Workers : CB_Insert(w)
    \/ \E w \in Workers :
          /\ Turn(w)
          /\ \E a \in DCancelArgs : CX_Resolve(w, a[1], a[2], a[3])
    \/ \E w \in Workers : CX_Check(w)
    \/ \E w \in Workers : CX_Update(w)

DaySpec == DInit /\ [][DNext]_vars

(***************************************************************************)
(* LoopSpec: _list_available_slots_impl with the while loop of             *)
(* add_window_local taken one iteration a step, over services whose        *)
(* duration upsert_service stored unchecked.  A datetime covers a finite   *)
(* range of instants; an addition that leaves it raises OverflowError.     *)
(***************************************************************************)
\* coach, zone, duration and the three SELECTs; the windows of the
\* add_window_local calls, <<start_local, end_local, step_minutes>>, wait in
\* todo: those of the rules in their order, then the extra windows with an
\* end on day d
LD_Start(w, cid, d, service_id) ==
    /\ pc[w] = "idle"
    /\ call' = [call EXCEPT ![w] =
                  [op |-> "list_available_slots", coach_id |-> cid, day |-> d,
                   service_id |-> service_id]]
    /\ UNCHANGED << tables, clock >>
    /\ IF cid \notin DOMAIN coaches
       THEN Finish(w, Raise("Coach no existe"))
       ELSE IF ~ ZoneFound(CoachTz(coaches[cid]))
       THEN Finish(w, Raise("ZoneInfoNotFoundError"))
       ELSE
         LET tzname == CoachTz(coaches[cid])
             dur == EffectiveDuration(coaches, services, cid, service_id)
             bounds == DayBoundsUTC(d, tzname)
         IN \E rord \in RuleOrders(availability_rules, cid, d),
               xord \in ExceptionOrders(availability_exceptions, cid, d, tzname) :
              LET rules == availability_rules
                  excs == availability_exceptions
                  OnDay(i) == /\ excs[i].type = "extra"
                              /\ \/ LocalDate(ToLocal(excs[i].start_at, tzname)) = d
                                 \/ LocalDate(ToLocal(excs[i].end_at, tzname)) = d
                  ids == SelectSeq(xord, OnDay)
                  todo == [k \in DOMAIN rord |->
                             << Combine(d, rules[rord[k]].start_time),
                                Combine(d, rules[rord[k]].end_time),
                                IF rules[rord[k]].slot_minutes # NULL
                                THEN rules[rord[k]].slot_minutes ELSE dur >>]
                          \o [k \in DOMAIN ids |->
                                << ToLocal(excs[ids[k]].start_at, tzname),
                                   ToLocal(excs[ids[k]].end_at, tzname), dur >>]
              IN Goto(w, "ld_loop",
                      [tzname |-> tzname, dur |-> dur,
                       busy |-> BusyOf(bookings, cid, bounds[1], bounds[2]),
                       blocked |-> { << availability_exceptions[i].start_at,
                                        availability_exceptions[i].end_at >> : i \in
                                       { j \in ExceptionIdsIn(availability_exceptions, cid,
                                                              bounds[1], bounds[2]) :
                                           availability_exceptions[j].type = "blocked" } },
                       todo |-> todo,
                       cur |-> IF todo = << >> THEN 0 ELSE todo[1][1],
                       slots |-> << >>])

\* one pass through the body of while cur + slot_td <= end_local, the step
\* being step_minutes or the duration, the duration again if below 1; a
\* datetime outside the instants from two days before day 0 to three days
\* after it stands for one outside the range of datetime
LD_Iter(w) ==
    /\ pc[w] = "ld_loop"
    /\ loc[w].todo # << >>
    /\ loc[w].cur + loc[w].dur <= loc[w].todo[1][2]
    /\ UNCHANGED << tables, clock, call >>
    /\ LET l == loc[w]
           x == SlotOf(l.cur, l.dur, l.tzname)
           step0 == IF l.todo[1][3] # NULL THEN l.todo[1][3] ELSE l.dur
           step == IF step0 < 1 THEN l.dur ELSE step0
           slots == IF \/ Overlaps(x.start_utc, x.end_utc, l.busy)
                       \/ Overlaps(x.start_utc, x.end_utc, l.blocked)
                    THEN l.slots
                    ELSE Append(l.slots, x)
       IN IF l.cur + step \notin ((0 - 2) * TicksPerDay)..(3 * TicksPerDay)
          THEN Finish(w, Raise("OverflowError"))
          ELSE Goto(w, "ld_loop", [l EXCEPT !.cur = l.cur + step, !.slots = slots])

\* the condition of the while is false: add_window_local returns and the
\* next window, if there is one, is entered
LD_NextWindow(w) ==
    /\ pc[w] = "ld_loop"
    /\ loc[w].todo # << >>
    /\ ~ (loc[w].cur + loc[w].dur <= loc[w].todo[1][2])
    /\ UNCHANGED << tables, clock, call >>
    /\ LET rest == Tail(loc[w].todo)
       IN Goto(w, "ld_loop", [loc[w] EXCEPT !.todo = rest,
                                            !.cur = IF rest = << >> THEN 0 ELSE rest[1][1]])

\* slots.sort(key=start_utc) and the dict returned
LD_Return(w) ==
    /\ pc[w] = "ld_loop"
    /\ loc[w].todo = << >>
    /\ UNCHANGED << tables, clock, call >>
    /\ Finish(w, [kind |-> "return", ok |-> TRUE, error |-> "",
                  coach_id |-> call[w].coach_id, day |-> call[w].day,
                  timezone |-> loc[w].tzname, duration_minutes |-> loc[w].dur,
                  slots |-> SortSlots(loc[w].slots)])

\* the rules of coach 1 on the weekday of day 0 have a step above the default
\* duration, none, or a negative one; an extra or a blocked window on day 0
LInit ==
    /\ app_users = InitUsers
    /\ clients = InitClients
    /\ coaches = InitCoaches
    /\ services = << >>
    /\ availability_rules \in
          { << Rule(1, IsoWeekday(0), 1, 4, 2) >>,
            << Rule(1, IsoWeekday(0), 1, 3, 1), Rule(1, IsoWeekday(0), 3, 5, 0 - 1) >>,
            << Rule(1, IsoWeekday(0), 1, 3, NULL) >>,
            << >> }
    /\ availability_exceptions \in
          { << >>,
            << Exc(1, "extra", ToUtc(Combine(0, 3), DefaultTimezone),
                               ToUtc(Combine(0, 5), DefaultTimezone)) >>,
            << Exc(1, "blocked", ToUtc(Combine(0, 2), DefaultTimezone),
                                 ToUtc(Combine(0, 3), DefaultTimezone)) >> }
    /\ bookings \in { << >>, << ConfirmedRow >> }
    /\ clock = 0
    /\ pc = [w \in Workers |-> "idle"]
    /\ call = [w \in Workers |-> NoCall]
    /\ loc = [w \in Workers |-> NoLoc]
    /\ ret = [w \in Workers |-> NoRet]
    /\ InfraInit

LNext ==
    \/ \E w \in Workers :
          /\ Turn(w)
          /\ \E m \in { 2, 0, 0 - 1 } : US_Resolve(w, "clase", m, TRUE, TidCoach1)
    \/ \E w \in Workers : US_Write(w)
    \/ \E w \in Workers :
          /\ Turn(w)
          /\ \E cid \in { 1, 2, UnknownCoach }, service_id \in { NULL, 1 } :
                LD_Start(w, cid, 0, service_id)
    \/ \E w \in Workers : LD_Iter(w)
    \/ \E w \in Workers : LD_NextWindow(w)
    \/ \E w \in Workers : LD_Return(w)

LoopSpec == LInit /\ [][LNext]_vars

(***************************************************************************)
(* src/main.py: the webhook of the bot.  A worker is here a background     *)
(* task running process_update, or a caller of consume_coach_invite.       *)
(* Every "with engine.begin()" block is a transaction of its own; a plain  *)
(* SELECT inside one reads without locking, so the reads of a transaction  *)
(* and its commit are two steps that other transactions may come between.  *)
(***************************************************************************)
\* a step of src/main.py ends the call / moves it on; the tables of the bot
\* are framed by the step itself
End(w, r) ==
    /\ pc' = [pc EXCEPT ![w] = "done"]
    /\ loc' = [loc EXCEPT ![w] = NoLoc]
    /\ ret' = [ret EXCEPT ![w] = r]

Step(w, next, l) ==
    /\ pc' = [pc EXCEPT ![w] = next]
    /\ loc' = [loc EXCEPT ![w] = l]
    /\ ret' = ret

\* _sha256_hex_str: the hex digest of the token text; the tokens of the
\* model have digests of their own
Sha256Hex(token) == "sha256:" \o token

\* SELECT ... FROM coach_invites WHERE token_hash = :h LIMIT 1
InviteIdOf(invites, h) ==
    IF \E i \in DOMAIN invites : invites[i].token_hash = h
    THEN CHOOSE i \in DOMAIN invites :
            /\ invites[i].token_hash = h
            /\ \A j \in DOMAIN invites : invites[j].token_hash = h => i <= j
    ELSE NULL

\* SELECT id FROM coaches WHERE user_id = :uid
CoachIdOfUser(chs, uid) ==
    IF \E i \in DOMAIN chs : chs[i].user_id = uid
    THEN CHOOSE i \in DOMAIN chs :
            chs[i].user_id = uid /\ \A j \in DOMAIN chs : chs[j].user_id = uid => i <= j
    ELSE NULL

\* what the caller of consume_coach_invite goes on with: the call itself
\* ends, process_update composes its reply
CI_Return(w, r) ==
    IF call[w].op = "consume_coach_invite" THEN End(w, r)
    ELSE IF r.ok THEN Step(w, "pu_active", [coach_id |-> r.coach_id])
    ELSE Step(w, "pu_send", [reply |-> r.error])

\* consume_coach_invite is called: the digest, now = utc_now_dt()
CI_Call(w, token, tid) ==
    /\ pc[w] = "idle"
    /\ call' = [call EXCEPT ![w] =
                  [op |-> "consume_coach_invite", token |-> token,
                   telegram_user_id |-> tid]]
    /\ UNCHANGED << tables, clock, infra >>
    /\ Step(w, "ci_read", [token |-> token, tid |-> tid, now |-> clock])

\* the SELECTs of the transaction and the checks made, in their order, on
\* what they return
CI_Read(w) ==
    /\ pc[w] = "ci_read"
    /\ UNCHANGED << tables, clock, call, infra >>
    /\ LET l == loc[w]
           i == InviteIdOf(coach_invites, Sha256Hex(l.token))
           uid == GetAppUserByTelegram(app_users, l.tid)
           err == IF i = NULL THEN "invalid_token"
                  ELSE IF coach_invites[i].used_at # NullTime THEN "already_used"
                  ELSE IF /\ coach_invites[i].expires_at # NullTime
                          /\ coach_invites[i].expires_at < l.now
                  THEN "expired"
                  ELSE IF uid # NULL /\ app_users[uid].status # "active"
                  THEN "user_blocked"
                  ELSE ""
       IN IF err # "" THEN CI_Return(w, Raise(err))
          ELSE Step(w, "ci_write",
                    [token |-> l.token, tid |-> l.tid, now |-> l.now,
                     inv_id |-> i,
                     uid |-> uid,
                     role |-> IF uid = NULL THEN NullText ELSE app_users[uid].role,
                     coach_id |-> IF uid = NULL THEN NULL
                                  ELSE CoachIdOfUser(coaches, uid)])

\* the writes of the transaction, committed: the user promoted or inserted,
\* the coach inserted if the user had none, the invite marked used
CI_Write(w) ==
    /\ pc[w] = "ci_write"
    /\ LET l == loc[w]
           inv == coach_invites[l.inv_id]
           users == IF l.uid = NULL
                    THEN Append(app_users,
                                [telegram_user_id |-> l.tid, role |-> "coach",
                                 status |-> "active",
                                 full_name |-> inv.proposed_full_name])
                    ELSE IF l.role # "admin"
                    THEN [app_users EXCEPT
                            ![l.uid].role = "coach",
                            ![l.uid].full_name =
                                IF @ = NullText THEN inv.proposed_full_name ELSE @]
                    ELSE app_users
           user_id == IF l.uid = NULL THEN Len(users) ELSE l.uid
           chs == IF l.coach_id # NULL THEN coaches
                  ELSE Append(coaches,
                              [user_id |-> user_id,
                               timezone |->
                                  IF inv.proposed_timezone \notin { NullText, "" }
                                  THEN inv.proposed_timezone
                                  ELSE "Atlantic/Canary",
                               default_lesson_minutes |->
                                  IF inv.proposed_default_lesson_minutes # NULL
                                  THEN inv.proposed_default_lesson_minutes
                                  ELSE 60])
           coach_id == IF l.coach_id # NULL THEN l.coach_id ELSE Len(chs)
       IN /\ app_users' = users
          /\ coaches' = chs
          /\ coach_invites' = [coach_invites EXCEPT
                                 ![l.inv_id].used_at = l.now,
                                 ![l.inv_id].used_by_telegram_user_id = l.tid]
          /\ CI_Return(w, [kind |-> "return", ok |-> TRUE, error |-> "",
                           coach_id |-> coach_id])
    /\ UNCHANGED << clients, services, availability_rules, availability_exceptions,
                    bookings, clock, call, telegram_updates, telegram_users,
                    sessions, messages, outbox >>

(***************************************************************************)
(* InviteSpec: callers of consume_coach_invite running side by side, each  *)
(* for a user of its own, on a fresh invite, a used one, one that expires  *)
(* when the clock moves, and a token never issued.                         *)
(***************************************************************************)
\* admin_create_coach_invite has issued three invites: "fresh", "spent"
\* (used by coach 2) and "brief" (expiring after instant 0)
IInit ==
    /\ app_users = InitUsers
    /\ clients = InitClients
    /\ coaches = InitCoaches
    /\ services = << >>
    /\ availability_rules = << >>
    /\ availability_exceptions = << >>
    /\ bookings = << >>
    /\ clock = 0
    /\ pc = [w \in Workers |-> "idle"]
    /\ call = [w \in Workers |-> NoCall]
    /\ loc = [w \in Workers |-> NoLoc]
    /\ ret = [w \in Workers |-> NoRet]
    /\ telegram_updates = { }
    /\ telegram_users = { }
    /\ sessions = [t \in { } |-> NULL]
    /\ messages = EmptyBag
    /\ coach_invites =
          << [token_hash |-> Sha256Hex("fresh"), proposed_full_name |-> "Nora",
              proposed_timezone |-> NullText, proposed_default_lesson_minutes |-> NULL,
              expires_at |-> MaxClock + 1, used_at |-> NullTime,
              used_by_telegram_user_id |-> NULL],
             [token_hash |-> Sha256Hex("spent"), proposed_full_name |-> "Olga",
              proposed_timezone |-> "Europe/Madrid",
              proposed_default_lesson_minutes |-> 30,
              expires_at |-> MaxClock + 1, used_at |-> 0,
              used_by_telegram_user_id |-> TidCoach2],
             [token_hash |-> Sha256Hex("brief"), proposed_full_name |-> NullText,
              proposed_timezone |-> "UTC", proposed_default_lesson_minutes |-> 45,
              expires_at |-> 0, used_at |-> NullTime,
              used_by_telegram_user_id |-> NULL] >>
    /\ outbox = EmptyBag

\* the calls in flight are calls of different users
INext ==
    \/ \E w \in Workers, a \in
             { << "fresh", TidClientA >>, << "fresh", TidUnknown >>, << "fresh", TidAdmin >>,
               << "fresh", TidBlocked >>, << "fresh", TidCoach1 >>, << "spent", TidClientB >>,
               << "spent", TidBlocked >>, << "brief", TidBareClient >>,
               << "never", TidClientB >> } :
          /\ \A v \in Workers :
                pc[v] \in { "ci_read", "ci_write" } => call[v].telegram_user_id # a[2]
          /\ CI_Call(w, a[1], a[2])
    \/ \E w \in Workers : CI_Read(w)
    \/ \E w \in Workers : CI_Write(w)
    \/ Tick

InviteSpec == IInit /\ [][INext]_vars

(***************************************************************************)
(* process_update.  The text of a message is the sequence of its words     *)
(* (in lower case); an update without text has none.  The calls to OpenAI  *)
(* and to Telegram either return or raise, and whatever raises is caught   *)
(* by the handler of process_update, which returns.  The tool calls an     *)
(* assistant turn makes are the calls of the agenda tools above; here the  *)
(* turn is the step that yields the text of the reply.                     *)
(***************************************************************************)
\* an INSERT into a table without a key on update_id: a row each time
MarkUpdateReceived_NoKey(updates, update_id) ==
    [inserted |-> TRUE, updates |-> updates \cup { update_id }]

\* INSERT IGNORE INTO telegram_updates: rowcount 1 if the key was new, else 0
MarkUpdateReceived(updates, update_id) ==
    [inserted |-> update_id \notin updates, updates |-> updates \cup { update_id }]

\* process_update returns None; how it came to return is kept with the call
Outcome(o) == [kind |-> "return", ok |-> o # "error", error |-> "", outcome |-> o]

\* the update is read; one without text is dropped
PU_Start(w, u) ==
    /\ pc[w] = "idle"
    /\ call' = [call EXCEPT ![w] =
                  [op |-> "process_update", update_id |-> u.update_id,
                   telegram_user_id |-> u.from, text |-> u.text]]
    /\ UNCHANGED << tables, clock, infra >>
    /\ IF u.text = << >>
       THEN End(w, Outcome("no_text"))
       ELSE Step(w, "pu_gate", NoLoc)

\* if not mark_update_received(update_id): return
PU_Gate(w) ==
    /\ pc[w] = "pu_gate"
    /\ LET m == MarkUpdateReceived(telegram_updates, call[w].update_id)
       IN /\ telegram_updates' = m.updates
          /\ IF m.inserted
             THEN Step(w, "pu_log_in", NoLoc)
             ELSE End(w, Outcome("duplicate"))
    /\ UNCHANGED << tables, clock, call, telegram_users, sessions, messages,
                    coach_invites, outbox >>

\* upsert_telegram_user, ensure_session, log_message(direction="in")
PU_LogIn(w) ==
    /\ pc[w] = "pu_log_in"
    /\ LET tid == call[w].telegram_user_id
       IN /\ telegram_users' = telegram_users \cup { tid }
          /\ sessions' = [t \in DOMAIN sessions \cup { tid } |->
                            IF t \in DOMAIN sessions THEN sessions[t]
                            ELSE [openai_conversation_id |-> NULL,
                                  openai_last_response_id |-> NULL,
                                  active_coach_id |-> NULL]]
          /\ messages' = messages (+) SetToBag({ [direction |-> "in",
                                                  telegram_update_id |-> call[w].update_id,
                                                  telegram_user_id |-> tid] })
    /\ UNCHANGED << tables, clock, call, telegram_updates, coach_invites, outbox >>
    /\ Step(w, "pu_conv", NoLoc)

\* get_session; a conversation is created and stored if the session has
\* none; then the text is matched against the activation commands,
\* ^\s*/coach\s+activate\s+(\S+)\s*$ and ^\s*/activar_coach\s+(\S+)\s*$
PU_Conversation(w) ==
    /\ pc[w] = "pu_conv"
    /\ UNCHANGED << tables, clock, call, telegram_updates, telegram_users, messages,
                    coach_invites, outbox >>
    /\ LET tid == call[w].telegram_user_id
           words == call[w].text
           token == IF Len(words) = 3 /\ words[1] = "/coach" /\ words[2] = "activate"
                    THEN words[3]
                    ELSE IF Len(words) = 2 /\ words[1] = "/activar_coach" THEN words[2]
                    ELSE NullText
       IN \/ /\ sessions[tid].openai_conversation_id = NULL
             /\ sessions' = sessions
             /\ End(w, Outcome("error"))
          \/ /\ sessions' = [sessions EXCEPT ![tid].openai_conversation_id =
                                IF @ = NULL THEN call[w].update_id ELSE @]
             /\ IF token # NullText
                THEN Step(w, "ci_read", [token |-> token, tid |-> tid, now |-> clock])
                ELSE Step(w, "pu_role", NoLoc)

\* set_active_coach_id after a successful activation, and the reply
PU_Activated(w) ==
    /\ pc[w] = "pu_active"
    /\ sessions' = [sessions EXCEPT ![call[w].telegram_user_id].active_coach_id =
                      loc[w].coach_id]
    /\ UNCHANGED << tables, clock, call, telegram_updates, telegram_users, messages,
                    coach_invites, outbox >>
    /\ Step(w, "pu_send", [reply |-> "activated"])

\* the role and ids of the sender (a sender without a user row becomes a
\* client), and the active coach of the session
PU_Role(w) ==
    /\ pc[w] = "pu_role"
    /\ LET tid == call[w].telegram_user_id
           au == GetAppUserByTelegram(app_users, tid)
           e == EnsureClientUser(app_users, clients, tid, NullText)
           users == IF au = NULL THEN e.users ELSE app_users
           cls == IF au = NULL THEN e.clients ELSE clients
           role == IF au = NULL THEN "client" ELSE app_users[au].role
           coach_id == IF au # NULL /\ role \in { "coach", "admin" }
                       THEN CoachIdOfUser(coaches, au) ELSE NULL
           active == sessions[tid].active_coach_id
           chosen == IF role \in { "coach", "admin" } /\ coach_id # NULL THEN coach_id
                     ELSE IF active = NULL /\ Len(coaches) = 1 THEN 1
                     ELSE active
       IN /\ app_users' = users
          /\ clients' = cls
          /\ sessions' = [sessions EXCEPT ![tid].active_coach_id = chosen]
    /\ UNCHANGED << coaches, services, availability_rules, availability_exceptions,
                    bookings, clock, call, telegram_updates, telegram_users, messages,
                    coach_invites, outbox >>
    /\ Step(w, "pu_assistant", NoLoc)

\* run_agenda_assistant_in_conversation, set_openai_last_response_id
PU_Assistant(w) ==
    /\ pc[w] = "pu_assistant"
    /\ UNCHANGED << tables, clock, call, telegram_updates, telegram_users, messages,
                    coach_invites, outbox >>
    /\ \/ /\ sessions' = sessions
          /\ End(w, Outcome("error"))
       \/ /\ sessions' = [sessions EXCEPT
                            ![call[w].telegram_user_id].openai_last_response_id =
                                call[w].update_id]
          /\ Step(w, "pu_send", [reply |-> "assistant"])

\* telegram_send_message: the message is accepted, or the request fails
PU_Send(w) ==
    /\ pc[w] = "pu_send"
    /\ UNCHANGED << tables, clock, call, telegram_updates, telegram_users, sessions,
                    messages, coach_invites >>
    /\ \/ /\ outbox' = outbox
          /\ End(w, Outcome("error"))
       \/ /\ outbox' = outbox (+) SetToBag({ [chat_id |-> call[w].telegram_user_id,
                                              update_id |-> call[w].update_id,
                                              text |-> loc[w].reply] })
          /\ Step(w, "pu_log_out", loc[w])

\* log_message(direction="out")
PU_LogOut(w) ==
    /\ pc[w] = "pu_log_out"
    /\ messages' = messages (+) SetToBag({ [direction |-> "out",
                                            telegram_update_id |-> call[w].update_id,
                                            telegram_user_id |-> call[w].telegram_user_id] })
    /\ UNCHANGED << tables, clock, call, telegram_updates, telegram_users, sessions,
                    coach_invites, outbox >>
    /\ End(w, Outcome("replied"))

(***************************************************************************)
(* HookSpec: Telegram delivers updates, each any number of times, and the  *)
(* deliveries are processed side by side.                                  *)
(***************************************************************************)
HUpdates ==
    { [update_id |-> 1, from |-> TidClientA, text |-> << "/coach", "activate", "fresh" >>],
      [update_id |-> 2, from |-> TidClientB, text |-> << "/activar_coach", "spent" >>],
      [update_id |-> 3, from |-> TidUnknown, text |-> << "hola" >>],
      [update_id |-> 4, from |-> TidAdmin, text |-> << >>] }

HNext ==
    \/ \E w \in Workers, u \in HUpdates : PU_Start(w, u)
    \/ \E w \in Workers : PU_Gate(w)
    \/ \E w \in Workers : PU_LogIn(w)
    \/ \E w \in Workers : PU_Conversation(w)
    \/ \E w \in Workers : CI_Read(w)
    \/ \E w \in Workers : CI_Write(w)
    \/ \E w \in Workers : PU_Activated(w)
    \/ \E w \in Workers : PU_Role(w)
    \/ \E w \in Workers : PU_Assistant(w)
    \/ \E w \in Workers : PU_Send(w)
    \/ \E w \in Workers : PU_LogOut(w)

HookSpec == IInit /\ [][HNext]_vars

(***************************************************************************)
(* Vocabulary of the properties                                            *)
(***************************************************************************)
Live(row) == row.status \in { "tentative", "confirmed" }

\* half-open intervals [s1,e1) and [s2,e2) overlap
Overlap(s1, e1, s2, e2) == s1 < e2 /\ s2 < e1

\* two live bookings of one coach overlap
LiveOverlap ==
    \E i, j \in DOMAIN bookings :
        /\ i < j
        /\ bookings[i].coach_id = bookings[j].coach_id
        /\ Live(bookings[i]) /\ Live(bookings[j])
        /\ Overlap(bookings[i].start_at, bookings[i].end_at,
                   bookings[j].start_at, bookings[j].end_at)

\* worker w takes a step of its call
Steps(w) == pc'[w] # pc[w]

\* worker w has finished a call of tool op
Done(w, op) == pc[w] = "done" /\ call[w].op = op

\* days on which the instants of the model fall
DaysOfModel == (0 - 1)..2

\* [s,e) lies in a rule window of coach cid (local time) or in an extra window (UTC)
InSomeWindow(cid, s, e) ==
    \/ \E i \in DOMAIN availability_rules, d \in DaysOfModel :
          LET r == availability_rules[i]
              off == UtcOffset(CoachTz(coaches[cid]))
          IN /\ r.coach_id = cid
             /\ r.weekday = IsoWeekday(d)
             /\ (r.valid_from = NullTime \/ r.valid_from <= d)
             /\ (r.valid_to = NullTime \/ d <= r.valid_to)
             /\ d * TicksPerDay + r.start_time <= s + off
             /\ e + off <= d * TicksPerDay + r.end_time
    \/ \E i \in DOMAIN availability_exceptions :
          LET x == availability_exceptions[i]
          IN /\ x.coach_id = cid /\ x.type = "extra"
             /\ x.start_at <= s /\ e <= x.end_at

(***************************************************************************)
(* C1..C10                                                                 *)
(***************************************************************************)
\* C1: under any interleaving of concurrent create_booking calls, in every
\* reachable state no two live (tentative/confirmed) bookings of the same
\* coach have overlapping half-open [start,end) intervals.
C1_NoLiveOverlapConcurrent == ~ LiveOverlap

\* worker w's create_booking was neither inadmissible nor blocked
PassedSchedule(w) ==
    /\ Done(w, "create_booking")
    /\ ret[w].kind = "return"
    /\ ret[w].error \in { "", "slot_not_available" }

\* every live booking overlapping w's request was inserted by w or by v
NoOtherConflict(w, v) ==
    \A i \in DOMAIN bookings :
        ( /\ bookings[i].coach_id = call[w].coach_id
          /\ Live(bookings[i])
          /\ Overlap(bookings[i].start_at, bookings[i].end_at, call[w].start_utc,
                     call[w].start_utc + call[w].duration_minutes) )
        => \E u \in { w, v } : ret[u].ok /\ ret[u].booking_id = i

\* C2: of two concurrent create_booking calls for the same coach with
\* identical or overlapping windows, both admissible, with no pre-existing
\* conflicting booking or blocked exception, exactly one returns ok=true and
\* the other returns slot_not_available.
C2_ExactlyOneWins ==
    \A w, v \in Workers :
        ( /\ w < v
          /\ PassedSchedule(w) /\ PassedSchedule(v)
          /\ call[w].coach_id = call[v].coach_id
          /\ Overlap(call[w].start_utc, call[w].start_utc + call[w].duration_minutes,
                     call[v].start_utc, call[v].start_utc + call[v].duration_minutes)
          /\ NoOtherConflict(w, v) /\ NoOtherConflict(v, w) )
        => \/ ret[w].ok /\ ret[v].error = "slot_not_available"
           \/ ret[v].ok /\ ret[w].error = "slot_not_available"

\* worker w's create_booking is turned down for a conflict in this step
RejectedForConflict(w) ==
    /\ pc[w] = "cb_conflict" /\ pc'[w] = "done"
    /\ ret'[w].error = "slot_not_available"

\* some live booking of the coach properly overlaps the request of worker w
ProperConflict(w) ==
    \E i \in DOMAIN bookings :
        /\ bookings[i].coach_id = call[w].coach_id
        /\ Live(bookings[i])
        /\ Overlap(bookings[i].start_at, bookings[i].end_at, call[w].start_utc,
                   call[w].start_utc + call[w].duration_minutes)

\* C3: when calls execute one at a time, after any sequence of
\* create_booking, cancel_booking, set_availability_rules and
\* add_availability_exception calls no two live bookings of the same coach
\* overlap, and create_booking answers slot_not_available only when a live
\* booking properly overlaps the request (touching endpoints do not conflict).
C3_SequentialNoOverlap ==
    /\ [] ~ LiveOverlap
    /\ [][ \A w \in Workers : RejectedForConflict(w) => ProperConflict(w) ]_vars

\* a booking was committed right next to a live booking of the same coach
C3_Witness ==
    \E w \in Workers, i \in DOMAIN bookings :
        /\ Done(w, "create_booking") /\ ret[w].ok
        /\ i # ret[w].booking_id
        /\ Live(bookings[i])
        /\ bookings[i].coach_id = call[w].coach_id
        /\ \/ bookings[i].start_at = call[w].start_utc + call[w].duration_minutes
           \/ bookings[i].end_at = call[w].start_utc

\* C4: a create_booking call whose interval [start, start+duration) lies in
\* no rule window and no extra window of the coach returns
\* {ok: false, error: "outside_availability"}, and the booking rows after the
\* call are the rows before it.
C4_OutsideAvailability ==
    [][ \A w \in Workers :
          /\ ( /\ pc[w] = "cb_allowed" /\ Steps(w)
               /\ call[w].coach_id \in DOMAIN coaches
               /\ ~ InSomeWindow(call[w].coach_id, call[w].start_utc,
                                 call[w].start_utc + call[w].duration_minutes) )
             => ret'[w] = Reject("outside_availability")
          /\ ( /\ Steps(w) /\ pc'[w] = "done"
               /\ call'[w].op = "create_booking"
               /\ ret'[w].error = "outside_availability" )
             => bookings' = bookings
          /\ ( /\ Steps(w) /\ pc[w] = "idle" /\ call'[w].op = "create_booking" )
             => bookings' = bookings ]_vars

\* a request on the coach's open weekday but past the end of the window was refused
C4_Witness ==
    \E w \in Workers :
        /\ Done(w, "create_booking")
        /\ ret[w] = Reject("outside_availability")
        /\ call[w].coach_id = 1
        /\ call[w].start_utc = 1
        /\ \E i \in DOMAIN availability_rules :
              /\ availability_rules[i].coach_id = 1
              /\ availability_rules[i].weekday = IsoWeekday(0)

\* the gate that turns a create_booking request down, "" if none does
FirstFailingGate(c) ==
    LET uid == GetAppUserByTelegram(app_users, c.telegram_user_id)
        s == c.start_utc
        e == c.start_utc + c.duration_minutes
    IN IF c.telegram_user_id = NULL THEN "actor_telegram_user_id_required"
       ELSE IF uid # NULL /\ app_users[uid].status # "active" THEN "user_blocked"
       ELSE IF uid # NULL /\ app_users[uid].role # "client" /\ c.client_id = NULL
            THEN "client_id_required_for_coach"
       ELSE IF c.coach_id \notin DOMAIN coaches THEN "Coach no existe"
       ELSE IF ~ InSomeWindow(c.coach_id, s, e) THEN "outside_availability"
       ELSE IF \E i \in DOMAIN availability_exceptions :
                  /\ availability_exceptions[i].coach_id = c.coach_id
                  /\ availability_exceptions[i].type = "blocked"
                  /\ Overlap(availability_exceptions[i].start_at,
                             availability_exceptions[i].end_at, s, e)
            THEN "blocked_by_exception"
       ELSE IF \E i \in DOMAIN bookings :
                  /\ bookings[i].coach_id = c.coach_id
                  /\ Live(bookings[i])
                  /\ Overlap(bookings[i].start_at, bookings[i].end_at, s, e)
            THEN "slot_not_available"
       ELSE ""

\* C5: create_booking evaluates its gates in a fixed order and reports the
\* first that fails: actor status (user_blocked), client-id resolution,
\* admissibility (outside_availability), blocked exceptions
\* (blocked_by_exception), live-booking conflict (slot_not_available); a call
\* is committed only when no gate fails.
C5_FirstFailingGateWins ==
    [][ \A w \in Workers :
          ( /\ Steps(w) /\ pc'[w] = "done" /\ call'[w].op = "create_booking" )
          => ret'[w].error = FirstFailingGate(call'[w]) ]_vars

\* a request that overlaps a blocked exception and a live booking was
\* answered blocked_by_exception
C5_Witness ==
    \E w \in Workers :
        /\ Done(w, "create_booking")
        /\ ret[w].error = "blocked_by_exception"
        /\ ProperConflict(w)

\* the actor of worker w's call may cancel the booking row
MayCancel(w, row) ==
    LET tid == call[w].telegram_user_id
        uid == GetAppUserByTelegram(app_users, tid)
    IN /\ uid # NULL
       /\ \/ app_users[uid].role = "admin"
          \/ /\ app_users[uid].role = "coach"
             /\ \E c \in DOMAIN coaches : coaches[c].user_id = uid /\ c = row.coach_id
          \/ /\ app_users[uid].role = "client"
             /\ \E c \in DOMAIN clients : clients[c].user_id = uid /\ c = row.client_id

CancelledOk(b) ==
    [kind |-> "return", ok |-> TRUE, error |-> "", booking_id |-> b, status |-> "cancelled"]

\* C6: cancel_booking called twice in sequence on the same booking id by an
\* actor permitted to cancel it returns status cancelled both times, and the
\* second call performs no mutation: timestamp, actor and reason recorded by
\* the first call are unchanged after the second.
C6_CancelIdempotent ==
    [][ \A w \in Workers :
          /\ ( pc[w] = "cx_update" /\ Steps(w) )
             => ret'[w] = CancelledOk(call[w].booking_id)
          /\ ( /\ pc[w] = "cx_check" /\ Steps(w)
               /\ call[w].booking_id \in DOMAIN bookings
               /\ bookings[call[w].booking_id].status = "cancelled"
               /\ MayCancel(w, bookings[call[w].booking_id]) )
             => /\ ret'[w] = CancelledOk(call[w].booking_id)
                /\ bookings' = bookings ]_vars

\* two calls cancelled the same booking, and the row carries the first one's data
C6_Witness ==
    \E w, v \in Workers :
        /\ w < v
        /\ Done(w, "cancel_booking") /\ Done(v, "cancel_booking")
        /\ call[w].booking_id = call[v].booking_id
        /\ ret[w] = CancelledOk(call[w].booking_id)
        /\ ret[v] = CancelledOk(call[w].booking_id)
        /\ call[w].reason # call[v].reason
        /\ bookings[call[w].booking_id].cancel_reason = call[w].reason

\* C7: every booking inserted by create_booking has status confirmed; the
\* only status change any operation makes is tentative/confirmed -> cancelled,
\* made by cancel_booking; a cancelled booking stays cancelled; no operation
\* deletes a booking row.
C7_StatusLifecycle ==
    [][ /\ Len(bookings') >= Len(bookings)
        /\ \A i \in DOMAIN bookings :
              /\ bookings'[i].coach_id = bookings[i].coach_id
              /\ bookings'[i].client_id = bookings[i].client_id
              /\ bookings'[i].start_at = bookings[i].start_at
              /\ bookings'[i].end_at = bookings[i].end_at
              /\ bookings[i].status = "cancelled" => bookings'[i].status = "cancelled"
              /\ bookings'[i].status # bookings[i].status
                 => /\ Live(bookings[i])
                    /\ bookings'[i].status = "cancelled"
                    /\ \E w \in Workers :
                          /\ call[w].op = "cancel_booking" /\ call[w].booking_id = i
                          /\ Steps(w)
        /\ \A i \in DOMAIN bookings' \ DOMAIN bookings :
              /\ bookings'[i].status = "confirmed"
              /\ \E w \in Workers : call[w].op = "create_booking" /\ Steps(w) ]_vars

\* a booking made by create_booking has been cancelled afterwards
C7_Witness ==
    \E w, v \in Workers :
        /\ Done(w, "create_booking") /\ ret[w].ok
        /\ Done(v, "cancel_booking") /\ ret[v].ok
        /\ call[v].booking_id = ret[w].booking_id
        /\ bookings[ret[w].booking_id].status = "cancelled"

\* C8: under any interleaving of concurrent cancel_booking calls on the same
\* live booking, the cancellation metadata (actor, timestamp, reason) is
\* written by exactly one call and never overwritten by another.
C8_CancelledOnce ==
    [][ \A i \in DOMAIN bookings :
          bookings[i].cancelled_at # NullTime
          => /\ bookings'[i].cancelled_by_user_id = bookings[i].cancelled_by_user_id
             /\ bookings'[i].cancelled_at = bookings[i].cancelled_at
             /\ bookings'[i].cancel_reason = bookings[i].cancel_reason ]_vars

\* C9: for every booking that belongs to a different client, whatever its
\* status, cancel_booking by an active client-role actor returns
\* forbidden_not_your_booking and leaves the booking unchanged.
C9_ForeignBookingForbidden ==
    [][ \A w \in Workers :
          ( /\ pc[w] = "cx_check" /\ Steps(w)
            /\ call[w].booking_id \in DOMAIN bookings
            /\ loc[w].role = "client"
            /\ ~ MayCancel(w, bookings[call[w].booking_id]) )
          => /\ ret'[w] = Reject("forbidden_not_your_booking")
             /\ bookings' = bookings ]_vars

\* C10: for a live booking, cancel_booking by an active actor changes its
\* status to cancelled iff the actor is an admin, or the coach of the booking,
\* or the client of the booking; a coach targeting another coach's booking
\* gets forbidden_other_coach_booking and the booking is unchanged.
C10_CancelPermission ==
    [][ /\ \A w \in Workers :
             ( /\ pc[w] = "cx_check" /\ Steps(w)
               /\ call[w].booking_id \in DOMAIN bookings
               /\ Live(bookings[call[w].booking_id]) )
             => LET row == bookings[call[w].booking_id] IN
                /\ bookings' = bookings
                /\ MayCancel(w, row) <=> pc'[w] = "cx_update"
                /\ ( ~ MayCancel(w, row) /\ loc[w].role = "coach" )
                   => ret'[w] = Reject("forbidden_other_coach_booking")
                /\ ( ~ MayCancel(w, row) ) => ( pc'[w] = "done" /\ ~ ret'[w].ok )
        /\ \A w \in Workers :
             ( pc[w] = "cx_update" /\ Steps(w) )
             => bookings'[call[w].booking_id].status = "cancelled"
        /\ \A i \in DOMAIN bookings :
             ( Live(bookings[i]) /\ ~ Live(bookings'[i]) )
             => \E w \in Workers :
                   /\ pc[w] = "cx_update" /\ Steps(w)
                   /\ call[w].booking_id = i
                   /\ MayCancel(w, bookings[i]) ]_vars

\* a coach was refused the cancellation of a live booking of another coach
C10_Witness ==
    \E w \in Workers :
        /\ Done(w, "cancel_booking")
        /\ ret[w] = Reject("forbidden_other_coach_booking")
        /\ Live(bookings[call[w].booking_id])

(***************************************************************************)
(* C11..C20                                                                *)
(***************************************************************************)
\* role of the registered identity tid, "none" if it has no app user
ActorRole(tid) ==
    IF GetAppUserByTelegram(app_users, tid) = NULL THEN "none"
    ELSE app_users[GetAppUserByTelegram(app_users, tid)].role

\* C11: every booking committed by a create_booking call of a client-role
\* actor carries the client id of the actor's own client record, whatever
\* clientId argument was passed; a create_booking call of a coach- or
\* admin-role actor without a clientId is rejected and inserts no booking.
C11_ClientIdForced ==
    [][\A w \in Workers :
          /\ ( /\ pc[w] = "cb_insert" /\ pc'[w] = "done"
               /\ ActorRole(call[w].telegram_user_id) = "client" )
             => /\ Len(bookings') = Len(bookings) + 1
                /\ ClientIdOfUser(clients,
                      GetAppUserByTelegram(app_users, call[w].telegram_user_id)) # NULL
                /\ bookings'[Len(bookings')].client_id =
                      ClientIdOfUser(clients,
                         GetAppUserByTelegram(app_users, call[w].telegram_user_id))
          /\ ( /\ Steps(w) /\ call'[w].op = "create_booking"
               /\ ActorRole(call'[w].telegram_user_id) \in { "coach", "admin" }
               /\ call'[w].client_id = NULL )
             => /\ bookings' = bookings
                /\ pc'[w] = "done"
                /\ ret'[w].ok = FALSE
                /\ ret'[w].error = "client_id_required_for_coach"
      ]_vars

\* client A passed client 2's id and the booking made is client A's own
C11_Witness ==
    \E w \in Workers :
        /\ Done(w, "create_booking")
        /\ call[w].telegram_user_id = TidClientA
        /\ call[w].client_id = 2
        /\ ret[w].ok
        /\ bookings[ret[w].booking_id].client_id = 1

\* tid is registered and active
RegisteredActive(tid) ==
    /\ GetAppUserByTelegram(app_users, tid) # NULL
    /\ app_users[GetAppUserByTelegram(app_users, tid)].status = "active"

\* worker w takes the first step of a create_booking call that names its actor
StartsCreate(w) ==
    /\ pc[w] = "idle"
    /\ call'[w].op = "create_booking"
    /\ call'[w].telegram_user_id # NULL

\* C12: create_booking passes its first gate only for an identity
\* registered and active before the call; a call by an identity with no app
\* user is rejected and leaves bookings, app users and clients unchanged.
C12_UnregisteredRejected ==
    [][\A w \in Workers :
          (StartsCreate(w) /\ ~ RegisteredActive(call'[w].telegram_user_id))
             => /\ pc'[w] = "done"
                /\ ret'[w].ok = FALSE
                /\ app_users' = app_users
                /\ clients' = clients
                /\ bookings' = bookings
      ]_vars

\* worker w serves a list_available_slots call in this step and the call returns
Lists(w) ==
    /\ pc[w] = "idle" /\ pc'[w] = "done"
    /\ call'[w].op = "list_available_slots"
    /\ ret'[w].kind = "return"

\* slot x lies in a rule window of coach cid valid on day d
InRuleWindow(x, cid, d) ==
    \E i \in DOMAIN availability_rules :
        LET r == availability_rules[i]
        IN /\ r.coach_id = cid
           /\ r.weekday = IsoWeekday(d)
           /\ (r.valid_from = NullTime \/ r.valid_from <= d)
           /\ (r.valid_to = NullTime \/ d <= r.valid_to)
           /\ d * TicksPerDay + r.start_time <= x.start_local
           /\ x.end_local <= d * TicksPerDay + r.end_time

\* slot x lies in an extra window of coach cid
InExtraWindow(x, cid) ==
    \E i \in DOMAIN availability_exceptions :
        LET e == availability_exceptions[i]
        IN /\ e.coach_id = cid /\ e.type = "extra"
           /\ e.start_at <= x.start_utc /\ x.end_utc <= e.end_at

\* C13: no slot returned by list_available_slots for a coach and a date
\* overlaps (half-open test) a tentative/confirmed booking of that coach or a
\* blocked exception of that coach active on that date.
C13_SlotsAreFree ==
    [][\A w \in Workers : Lists(w) =>
          \A k \in DOMAIN ret'[w].slots :
             LET x == ret'[w].slots[k]
                 cid == call'[w].coach_id
                 lo == call'[w].day * TicksPerDay - UtcOffset(CoachTz(coaches[cid]))
                 hi == lo + TicksPerDay
             IN /\ \A i \in DOMAIN bookings :
                      (bookings[i].coach_id = cid /\ Live(bookings[i]))
                         => ~ Overlap(x.start_utc, x.end_utc,
                                      bookings[i].start_at, bookings[i].end_at)
                /\ \A i \in DOMAIN availability_exceptions :
                      LET e == availability_exceptions[i]
                      IN ( /\ e.coach_id = cid /\ e.type = "blocked"
                           /\ e.start_at < hi /\ e.end_at > lo )
                            => ~ Overlap(x.start_utc, x.end_utc, e.start_at, e.end_at)
      ]_vars

StartTimes(slots, d) == [k \in DOMAIN slots |-> slots[k].start_local - d * TicksPerDay]

\* coach 1 has the single window of ScenarioRules, no booking, exceptions xs
Scenario(xs) ==
    /\ availability_rules = ScenarioRules
    /\ bookings = << >>
    /\ availability_exceptions = xs

\* C15: (a tick is 30 minutes, the window 09:00-11:00 is local ticks 1..5 with
\* a slot every tick) on a day with no bookings and no exceptions the list for
\* duration 1 holds exactly the slots starting at ticks 1, 2, 3, 4 and the
\* list for duration 2 exactly the slots starting at ticks 1 and 3.
C15_ScenarioSlots ==
    [][\A w \in Workers :
          (Lists(w) /\ Scenario(<< >>) /\ call'[w].coach_id = 1 /\ call'[w].day = 0)
             => /\ ret'[w].duration_minutes = 1
                     => StartTimes(ret'[w].slots, 0) = << 1, 2, 3, 4 >>
                /\ ret'[w].duration_minutes = 2
                     => StartTimes(ret'[w].slots, 0) = << 1, 3 >>
      ]_vars

\* C15 amended: ... the list for duration 1 holds exactly the slots starting
\* at ticks 1, 2, 3, 4 and the list for duration 2 exactly the slots starting
\* at ticks 1, 2 and 3 (a start every slot_minutes while the slot fits).
C15_ScenarioSlotsStepped ==
    [][\A w \in Workers :
          (Lists(w) /\ Scenario(<< >>) /\ call'[w].coach_id = 1 /\ call'[w].day = 0)
             => /\ ret'[w].duration_minutes = 1
                     => StartTimes(ret'[w].slots, 0) = << 1, 2, 3, 4 >>
                /\ ret'[w].duration_minutes = 2
                     => StartTimes(ret'[w].slots, 0) = << 1, 2, 3 >>
      ]_vars

\* the scenario's day was listed for the double duration
C15_Witness ==
    \E w \in Workers :
        /\ Done(w, "list_available_slots") /\ ret[w].kind = "return"
        /\ Scenario(<< >>)
        /\ call[w].coach_id = 1 /\ call[w].day = 0
        /\ ret[w].duration_minutes = 2
        /\ Len(ret[w].slots) = 3

\* C16: with the same window, duration 1 and no bookings, a blocked exception
\* on local ticks 2..3 removes exactly the slot starting at tick 2: the slots
\* touching its ends (1..2 and 3..4) stay in the list.
C16_BlockedRemovesOneSlot ==
    [][\A w \in Workers :
          ( /\ Lists(w) /\ Scenario(ScenarioBlocked)
            /\ call'[w].coach_id = 1 /\ call'[w].day = 0
            /\ ret'[w].duration_minutes = 1 )
             => StartTimes(ret'[w].slots, 0) = << 1, 3, 4 >>
      ]_vars

\* the scenario's day with the blocked exception was listed
C16_Witness ==
    \E w \in Workers :
        /\ Done(w, "list_available_slots") /\ ret[w].kind = "return"
        /\ Scenario(ScenarioBlocked)
        /\ call[w].coach_id = 1 /\ call[w].day = 0
        /\ ret[w].duration_minutes = 1
        /\ Len(ret[w].slots) = 3

\* C17: the list returned by list_available_slots is sorted ascending by UTC
\* start, and it is the list obtained for every order in which the rules and
\* the exceptions of the day can be stored or processed.
C17_SortedAnyOrder ==
    [][\A w \in Workers : Lists(w) =>
          LET cid == call'[w].coach_id
              d == call'[w].day
              tzname == CoachTz(coaches[cid])
              slots == ret'[w].slots
          IN /\ \A j, k \in DOMAIN slots : j < k => slots[j].start_utc <= slots[k].start_utc
             /\ \A rord \in Orderings(RuleIdsFor(availability_rules, cid, d)),
                   xord \in ExceptionOrders(availability_exceptions, cid, d, tzname) :
                  ListAvailableSlots(coaches, services, availability_rules,
                                     availability_exceptions, bookings,
                                     cid, d, call'[w].service_id, rord, xord).slots = slots
      ]_vars

\* a list built from two extra windows and a rule window, an extra slot first
C17_Witness ==
    \E w \in Workers :
        /\ Done(w, "list_available_slots") /\ ret[w].kind = "return"
        /\ Cardinality({ i \in DOMAIN availability_exceptions :
                           /\ availability_exceptions[i].coach_id = call[w].coach_id
                           /\ availability_exceptions[i].type = "extra" }) >= 2
        /\ Len(ret[w].slots) >= 2
        /\ ~ InRuleWindow(ret[w].slots[1], call[w].coach_id, call[w].day)
        /\ \E k \in DOMAIN ret[w].slots :
              InRuleWindow(ret[w].slots[k], call[w].coach_id, call[w].day)

\* number of slots in a list of returned days
RECURSIVE SumLens(_)
SumLens(days) ==
    IF days = << >> THEN 0 ELSE Len(Head(days).slots) + SumLens(Tail(days))

\* number of slots the week result R holds for day d
ReturnedFor(R, d) ==
    IF \E k \in DOMAIN R.days : R.days[k].day = d
    THEN Len(R.days[CHOOSE k \in DOMAIN R.days : R.days[k].day = d].slots)
    ELSE 0

\* number of slots list_available_slots gives for (coach, day, service) on the stored agenda
ProducedFor(cid, d, service_id) ==
    Len(ListAvailableSlots(coaches, services, availability_rules,
                           availability_exceptions, bookings, cid, d, service_id,
                           CHOOSE rord \in RuleOrders(availability_rules, cid, d) : TRUE,
                           CHOOSE xord \in ExceptionOrders(availability_exceptions, cid, d,
                                                           CoachTz(coaches[cid])) : TRUE).slots)

\* C18: list_available_classes_week returns at most max_slots_per_day slots
\* for each day, visits no further day once the slots accumulated have
\* reached max_total_slots, and returns truncated = true whenever a slot that
\* list_available_slots produces for a day from start_day to the end of the
\* week is missing from the result (cut from its day, or its day not visited).
C18_WeekLimits ==
    [][\A w \in Workers : pc[w] = "lw_day" =>
          /\ (loc'[w] # loc[w]) => SumLens(loc[w].days) < call[w].max_total_slots
          /\ (pc'[w] = "done" /\ ret'[w].kind = "return") =>
                LET R == ret'[w]
                IN /\ \A k \in DOMAIN R.days :
                         Len(R.days[k].slots) <= call[w].max_slots_per_day
                   /\ \A k \in DOMAIN R.days :
                         k < Len(R.days) =>
                            SumLens(SubSeq(R.days, 1, k)) < call[w].max_total_slots
                   /\ (\E d \in R.start_day..R.week_end :
                          ReturnedFor(R, d) <
                             ProducedFor(call[w].coach_id, d, call[w].service_id))
                         => R.truncated
      ]_vars

\* a week was returned with a day cut to the limit and a later day left out
C18_Witness ==
    \E w \in Workers :
        /\ Done(w, "list_available_classes_week") /\ ret[w].kind = "return"
        /\ ret[w].truncated
        /\ \E d \in ret[w].start_day..ret[w].week_end :
              /\ ReturnedFor(ret[w], d) = call[w].max_slots_per_day
              /\ ReturnedFor(ret[w], d) < ProducedFor(call[w].coach_id, d, call[w].service_id)
        /\ \E d \in ret[w].start_day..ret[w].week_end :
              /\ ReturnedFor(ret[w], d) = 0
              /\ ProducedFor(call[w].coach_id, d, call[w].service_id) > 0

\* worker w takes the admissibility step of create_booking for an existing coach
GateStep(w) ==
    /\ pc[w] = "cb_allowed" /\ Steps(w)
    /\ call[w].coach_id \in DOMAIN coaches

\* the UTC interval [s, e] as a slot of coach cid
AsSlot(cid, s, e) ==
    [start_utc |-> s, end_utc |-> e,
     start_local |-> s + UtcOffset(CoachTz(coaches[cid])),
     end_local |-> e + UtcOffset(CoachTz(coaches[cid]))]

\* C19: for an interval start < end, _slot_allowed is false whenever start
\* and end fall on different local dates of the coach; otherwise it is true
\* iff the interval lies (boundaries included) in a rule window of the coach
\* for that weekday valid on the date, or in an extra window of the coach.
C19_SlotAllowedIff ==
    [][\A w \in Workers : (GateStep(w) /\ loc[w].start_dt < loc[w].end_dt) =>
          LET cid == call[w].coach_id
              x == AsSlot(cid, loc[w].start_dt, loc[w].end_dt)
              d == x.start_local \div TicksPerDay
          IN IF x.end_local \div TicksPerDay # d
             THEN pc'[w] = "done" /\ ret'[w].error = "outside_availability"
             ELSE IF InRuleWindow(x, cid, d) \/ InExtraWindow(x, cid)
             THEN pc'[w] = "cb_blocked"
             ELSE pc'[w] = "done" /\ ret'[w].error = "outside_availability"
      ]_vars

\* an interval across local midnight, inside an extra window, was refused
C19_Witness ==
    \E w \in Workers :
        /\ Done(w, "create_booking")
        /\ ret[w].error = "outside_availability"
        /\ call[w].coach_id \in DOMAIN coaches
        /\ LET x == AsSlot(call[w].coach_id, call[w].start_utc,
                           call[w].start_utc + call[w].duration_minutes)
           IN /\ x.start_local \div TicksPerDay # x.end_local \div TicksPerDay
              /\ InExtraWindow(x, call[w].coach_id)

\* the exception rows of type extra
ExtrasOnly(excs) == LET isExtra(e) == e.type = "extra" IN SelectSeq(excs, isExtra)

\* C20: the outcome of _slot_allowed does not depend on blocked exceptions or
\* on bookings: in every state it is the value computed from the coach, its
\* rules and its extra exceptions alone (the state with the blocked
\* exceptions and the bookings erased), so two states that agree on these
\* give the same value for every interval.
C20_IgnoresBlockedAndBookings ==
    [][\A w \in Workers : GateStep(w) =>
          ( (pc'[w] = "cb_blocked")
              <=> SlotAllowed(coaches, availability_rules,
                              ExtrasOnly(availability_exceptions),
                              call[w].coach_id, loc[w].start_dt, loc[w].end_dt) )
      ]_vars

\* an interval that is both blocked and booked has passed the admissibility gate
C20_Witness ==
    \E w \in Workers :
        /\ pc[w] = "cb_blocked"
        /\ BlockedHits(availability_exceptions, call[w].coach_id,
                       loc[w].start_dt, loc[w].end_dt) # {}
        /\ ConflictHits(bookings, call[w].coach_id,
                        loc[w].start_dt, loc[w].end_dt) # {}

(***************************************************************************)
(* C21..C30                                                                *)
(***************************************************************************)
CoachScoped == { "set_availability_rules", "add_availability_exception", "list_bookings" }

\* worker w takes the first step of a call of a coach-scoped tool
StartsScoped(w) == pc[w] = "idle" /\ pc'[w] # "idle" /\ call'[w].op \in CoachScoped

\* the coach record owned by the actor, NULL if none
OwnCoach(tid) == GetCoachIdForTelegramUser(app_users, coaches, tid)

GuardErrors ==
    { "actor_telegram_user_id_required", "actor_not_registered", "user_blocked",
      "forbidden_requires_coach", "forbidden_other_coach" }

\* the first step of the call of w let it through the permission guards
PassedGuards(w) == pc'[w] # "done" \/ ret'[w].error \notin GuardErrors

\* C21: in set_availability_rules, add_availability_exception and
\* list_bookings, called by a registered active actor: a coach passes only
\* for its own coach id, any other coach id is rejected forbidden_other_coach
\* with the state unchanged; a client is always rejected
\* forbidden_requires_coach; an admin is let through for any coach id.
C21_CoachScope ==
    [][\A w \in Workers :
          (StartsScoped(w) /\ RegisteredActive(call'[w].telegram_user_id)) =>
             LET tid == call'[w].telegram_user_id
                 cid == call'[w].coach_id
             IN /\ (ActorRole(tid) = "coach" /\ OwnCoach(tid) = cid) => PassedGuards(w)
                /\ (ActorRole(tid) = "coach" /\ OwnCoach(tid) # cid)
                      => /\ pc'[w] = "done"
                         /\ ret'[w] = Raise("forbidden_other_coach")
                         /\ tables' = tables
                /\ ActorRole(tid) = "client"
                      => /\ pc'[w] = "done"
                         /\ ret'[w] = Raise("forbidden_requires_coach")
                         /\ tables' = tables
                /\ ActorRole(tid) = "admin" => PassedGuards(w)
      ]_vars

\* coach 1 was refused the bookings of coach 2, which the admin had listed
C21_Witness ==
    \E w, v \in Workers :
       /\ Done(w, "list_bookings") /\ call[w].coach_id = 2
       /\ call[w].telegram_user_id = TidCoach1
       /\ ret[w] = Raise("forbidden_other_coach")
       /\ Done(v, "list_bookings") /\ call[v].coach_id = 2
       /\ call[v].telegram_user_id = TidAdmin
       /\ ret[v].ok

Mutating ==
    { "create_booking", "cancel_booking", "set_availability_rules",
      "add_availability_exception", "upsert_service" }

Denials ==
    { "user_blocked", "forbidden_requires_coach", "forbidden_other_coach",
      "forbidden_requires_client", "forbidden_not_your_booking",
      "forbidden_other_coach_booking" }

\* C22: a call of create_booking, cancel_booking, set_availability_rules,
\* add_availability_exception or upsert_service that ends with user_blocked
\* or a forbidden_* error has changed no table: the call ends at its first
\* step, or at the step of cancel_booking that follows it, and none of
\* these steps writes.
C22_DeniedChangesNothing ==
    [][\A w \in Workers :
          call'[w].op \in Mutating =>
             /\ (pc[w] # "done" /\ pc'[w] = "done" /\ ret'[w].error \in Denials)
                   => /\ tables' = tables
                      /\ pc[w] \in { "idle", "cx_check" }
             /\ (pc[w] = "idle" /\ pc'[w] = "cx_check") => tables' = tables
      ]_vars

\* a blocked user was refused a booking and a client was refused a service,
\* and the tables are as they were before the two calls
C22_Witness ==
    \E w, v \in Workers :
       /\ Done(w, "create_booking") /\ ret[w] = Raise("user_blocked")
       /\ Done(v, "upsert_service") /\ ret[v] = Raise("forbidden_requires_coach")
       /\ bookings = << ConfirmedRow >>
       /\ services = << >>

\* the rule rows of coach cid, in table order
RulesOfCoach(rules, cid) ==
    LET mine(r) == r.coach_id = cid IN SelectSeq(rules, mine)

\* the rows are the rules of the request, one row a rule, in order
SameAsSupplied(rows, rs) ==
    /\ Len(rows) = Len(rs)
    /\ \A k \in DOMAIN rs :
          /\ rows[k].weekday = rs[k].weekday
          /\ rows[k].start_time = rs[k].start_time
          /\ rows[k].end_time = rs[k].end_time
          /\ rows[k].slot_minutes \in { rs[k].slot_minutes, DefaultSlotMinutes }

\* C23: set_availability_rules with replace_all is atomic, also among
\* concurrent calls: the rule table changes only in the step that completes
\* a successful call, which leaves the coach with exactly the supplied rules
\* and every other coach's rules as they were; a call that fails while
\* inserting leaves the table as it was.
C23_ReplaceAtomic ==
    [][/\ availability_rules' # availability_rules
          => \E w \in Workers :
                /\ pc[w] = "ar_write" /\ pc'[w] = "done" /\ ret'[w].ok
       /\ \A w \in Workers :
             (pc[w] = "ar_write" /\ pc'[w] = "done" /\ call[w].replace_all) =>
                IF ret'[w].ok
                THEN /\ SameAsSupplied(RulesOfCoach(availability_rules', call[w].coach_id),
                                       call[w].rules)
                     /\ \A c \in DOMAIN coaches :
                           c # call[w].coach_id
                              => RulesOfCoach(availability_rules', c)
                                    = RulesOfCoach(availability_rules, c)
                ELSE availability_rules' = availability_rules
      ]_vars

\* the admin replaced the rules of coach 2, then a replacement of coach 1's
\* rules failed at its second rule and coach 1 has the rule it had
C23_Witness ==
    \E w, v \in Workers :
       /\ Done(w, "set_availability_rules") /\ call[w].coach_id = 2 /\ ret[w].ok
       /\ Done(v, "set_availability_rules") /\ call[v].coach_id = 1
       /\ Len(call[v].rules) = 2
       /\ ret[v] = Raise("KeyError")
       /\ RulesOfCoach(availability_rules, 1) = InitRules
       /\ Len(RulesOfCoach(availability_rules, 2)) = 1

\* the actor is registered, active, and the admin or the coach cid itself
MayEdit(tid, cid) ==
    /\ RegisteredActive(tid)
    /\ \/ ActorRole(tid) = "admin"
       \/ ActorRole(tid) = "coach" /\ OwnCoach(tid) = cid

\* C24: add_availability_exception called by an actor allowed to edit the
\* coach fails with invalid_exception_type when the type is neither blocked
\* nor extra, and with invalid_time_range when the end is not after the
\* start, inserting nothing; every stored exception is blocked or extra and
\* ends after it starts.
C24_ExceptionValidated ==
    [][/\ \A i \in DOMAIN availability_exceptions' :
             /\ availability_exceptions'[i].type \in { "blocked", "extra" }
             /\ availability_exceptions'[i].end_at > availability_exceptions'[i].start_at
       /\ \A w \in Workers :
             ( /\ pc[w] = "idle" /\ pc'[w] # "idle"
               /\ call'[w].op = "add_availability_exception"
               /\ MayEdit(call'[w].telegram_user_id, call'[w].coach_id) ) =>
                  /\ call'[w].type \notin { "blocked", "extra" }
                        => /\ pc'[w] = "done"
                           /\ ret'[w] = Raise("invalid_exception_type")
                           /\ tables' = tables
                  /\ ( /\ call'[w].type \in { "blocked", "extra" }
                       /\ call'[w].end_utc <= call'[w].start_utc )
                        => /\ pc'[w] = "done"
                           /\ ret'[w] = Raise("invalid_time_range")
                           /\ tables' = tables
      ]_vars

\* an extra window of no length and a window of an unknown type were refused
C24_Witness ==
    \E w, v \in Workers :
       /\ Done(w, "add_availability_exception")
       /\ call[w].type = "extra" /\ call[w].end_utc = call[w].start_utc
       /\ ret[w] = Raise("invalid_time_range")
       /\ Done(v, "add_availability_exception")
       /\ call[v].type = "holiday"
       /\ ret[v] = Raise("invalid_exception_type")
       /\ availability_exceptions = << >>

\* C25: every booking row inserted by create_booking ends after it starts,
\* and a create_booking call with a duration of zero or less ends with an
\* error and inserts no booking.
C25_PositiveDuration ==
    [][\A w \in Workers :
          /\ (pc[w] = "cb_insert" /\ pc'[w] = "done" /\ Len(bookings') > Len(bookings))
                => bookings'[Len(bookings')].end_at > bookings'[Len(bookings')].start_at
          /\ ( /\ pc[w] # "done" /\ pc'[w] = "done"
               /\ call'[w].op = "create_booking"
               /\ call'[w].duration_minutes <= 0 )
                => /\ ret'[w].ok = FALSE
                   /\ bookings' = bookings
      ]_vars

\* a rule, stored or supplied, is a proper window on a weekday
ProperRule(r) == r.start_time < r.end_time /\ r.weekday \in 1..7

\* C26: every stored availability rule has start_time < end_time and a
\* weekday in 1..7; a set_availability_rules call that contains a rule
\* violating this stores none of its rules.
C26_RulesValidated ==
    [][/\ \A i \in DOMAIN availability_rules' : ProperRule(availability_rules'[i])
       /\ \A w \in Workers :
             ( /\ pc[w] = "ar_write" /\ pc'[w] = "done"
               /\ \E k \in DOMAIN call[w].rules : ~ ProperRule(call[w].rules[k]) )
                => availability_rules' = availability_rules
      ]_vars

\* worker w completes in this step a call that reads the agenda of a coach
\* whose stored zone name is not one the tz database knows
ReadsOddZone(w) ==
    /\ pc[w] # "done" /\ pc'[w] = "done"
    /\ call'[w].op \in { "list_available_slots", "list_available_classes_week",
                         "create_booking" }
    /\ call'[w].coach_id \in DOMAIN coaches
    /\ coaches[call'[w].coach_id].timezone \notin KnownZones \cup { "", NullText }

\* C27: list_available_slots, list_available_classes_week and the
\* admissibility gate of create_booking do not fail for a coach whose stored
\* timezone name is unknown: the call returns, the listings naming the
\* default timezone as they do for a coach with an empty timezone.
C27_UnknownZoneDefaults ==
    [][\A w \in Workers :
          ReadsOddZone(w) =>
             /\ ret'[w].kind = "return"
             /\ call'[w].op # "create_booking" => ret'[w].timezone = DefaultTimezone
      ]_vars

\* the starts S + k*p, k >= 0, with S + k*p + D <= E
CandidateStarts(S, E, p, D) ==
    { x \in S..E : x + D <= E /\ (x - S) % p = 0 }

\* the step of a rule window: its slot_minutes, the duration D if that is
\* missing, zero or negative
StepOf(r, D) == IF r.slot_minutes >= 1 THEN r.slot_minutes ELSE D

\* the candidate starts (local ticks) of the windows of coach cid expanded for day d
CandidatesOf(cid, d, D) ==
    LET off == UtcOffset(CoachTz(coaches[cid]))
        lo == d * TicksPerDay - off
        hi == lo + TicksPerDay
        rs == { i \in DOMAIN availability_rules :
                  LET r == availability_rules[i]
                  IN /\ r.coach_id = cid /\ r.weekday = IsoWeekday(d)
                     /\ (r.valid_from = NullTime \/ r.valid_from <= d)
                     /\ (r.valid_to = NullTime \/ d <= r.valid_to) }
        xs == { i \in DOMAIN availability_exceptions :
                  LET e == availability_exceptions[i]
                  IN /\ e.coach_id = cid /\ e.type = "extra"
                     /\ e.start_at < hi /\ e.end_at > lo
                     /\ \/ (e.start_at + off) \div TicksPerDay = d
                        \/ (e.end_at + off) \div TicksPerDay = d }
    IN UNION { CandidateStarts(d * TicksPerDay + availability_rules[i].start_time,
                               d * TicksPerDay + availability_rules[i].end_time,
                               StepOf(availability_rules[i], D), D) : i \in rs }
       \cup
       UNION { CandidateStarts(availability_exceptions[i].start_at + off,
                               availability_exceptions[i].end_at + off, D, D) : i \in xs }

\* the slot of D ticks at local tick x of coach cid meets no live booking of
\* the coach on day d, or none but the bookings skip, and no blocked
\* exception of the coach on day d
FreeBut(cid, d, x, D, skip) ==
    LET off == UtcOffset(CoachTz(coaches[cid]))
        lo == d * TicksPerDay - off
        hi == lo + TicksPerDay
    IN /\ \A i \in DOMAIN bookings :
             ( /\ i \notin skip /\ bookings[i].coach_id = cid /\ Live(bookings[i])
               /\ bookings[i].start_at < hi /\ bookings[i].end_at > lo )
                => ~ Overlap(x - off, x - off + D, bookings[i].start_at, bookings[i].end_at)
       /\ \A i \in DOMAIN availability_exceptions :
             LET e == availability_exceptions[i]
             IN (e.coach_id = cid /\ e.type = "blocked" /\ e.start_at < hi /\ e.end_at > lo)
                   => ~ Overlap(x - off, x - off + D, e.start_at, e.end_at)

\* C29: the slot starts list_available_slots generates for a window [S, E]
\* with step p and duration D are exactly the S + k*p, k >= 0, with
\* S + k*p + D <= E, where p is the rule's slot_minutes for a rule window
\* (D when slot_minutes is missing, zero or negative) and D for an extra
\* window; the starts returned are those candidates of the windows of the
\* day that meet no live booking and no blocked exception of the day.
C29_CandidateStarts ==
    [][\A w \in Workers : Lists(w) =>
          LET cid == call'[w].coach_id
              D == ret'[w].duration_minutes
          IN { ret'[w].slots[k].start_local : k \in DOMAIN ret'[w].slots }
                = { x \in CandidatesOf(cid, call'[w].day, D) : FreeBut(cid, call'[w].day, x, D, { }) }
      ]_vars

\* a rule with a negative slot_minutes was stepped by the duration of one tick
C29_Witness ==
    \E w \in Workers :
       /\ Done(w, "list_available_slots") /\ ret[w].kind = "return"
       /\ call[w].coach_id = 1 /\ call[w].day = 0
       /\ ret[w].duration_minutes = 1
       /\ \E i \in DOMAIN availability_rules :
             /\ availability_rules[i].coach_id = 1
             /\ availability_rules[i].slot_minutes < 0
             /\ \A x \in availability_rules[i].start_time..(availability_rules[i].end_time - 1) :
                   \E k \in DOMAIN ret[w].slots : ret[w].slots[k].start_local = x

\* C28: a cancelled booking is not busy: list_available_slots returns every
\* candidate slot of the day that meets a cancelled booking of the coach and
\* no live booking or blocked exception, and create_booking is rejected
\* slot_not_available only when a tentative or confirmed booking of the
\* coach overlaps the interval asked for.
C28_CancelledNotBusy ==
    [][\A w \in Workers :
          /\ Lists(w) =>
                LET cid == call'[w].coach_id
                    d == call'[w].day
                    D == ret'[w].duration_minutes
                    off == UtcOffset(CoachTz(coaches[cid]))
                IN \A b \in DOMAIN bookings : \A x \in CandidatesOf(cid, d, D) :
                      ( /\ bookings[b].coach_id = cid
                        /\ bookings[b].status = "cancelled"
                        /\ Overlap(x - off, x - off + D,
                                   bookings[b].start_at, bookings[b].end_at)
                        /\ FreeBut(cid, d, x, D, { }) )
                         => \E k \in DOMAIN ret'[w].slots : ret'[w].slots[k].start_local = x
          /\ ( /\ pc[w] = "cb_conflict" /\ pc'[w] = "done"
               /\ ret'[w].error = "slot_not_available" )
                => \E b \in DOMAIN bookings :
                      /\ bookings[b].coach_id = call[w].coach_id
                      /\ Live(bookings[b])
                      /\ Overlap(loc[w].start_dt, loc[w].end_dt,
                                 bookings[b].start_at, bookings[b].end_at)
      ]_vars

\* a cancel_booking call cancelled a booking and the listing served after
\* it returns a slot on the interval the booking had
C28_Witness ==
    \E w, v \in Workers :
       /\ Done(w, "cancel_booking") /\ ret[w].ok
       /\ call[w].booking_id \in DOMAIN bookings
       /\ bookings[call[w].booking_id].status = "cancelled"
       /\ bookings[call[w].booking_id].cancelled_by_user_id # NULL
       /\ Done(v, "list_available_slots") /\ ret[v].kind = "return"
       /\ call[v].coach_id = bookings[call[w].booking_id].coach_id
       /\ \E k \in DOMAIN ret[v].slots :
             Overlap(ret[v].slots[k].start_utc, ret[v].slots[k].end_utc,
                     bookings[call[w].booking_id].start_at,
                     bookings[call[w].booking_id].end_at)

\* C30: every slot returned by list_available_slots for a date starts and
\* ends on that date, also when an extra window begins on the day before or
\* ends on the day after; and an extra window that contains the whole of
\* the date contributes its free slots of that date.
C30_SlotsOnDate ==
    [][\A w \in Workers : Lists(w) =>
          LET cid == call'[w].coach_id
              d == call'[w].day
              D == ret'[w].duration_minutes
              off == UtcOffset(CoachTz(coaches[cid]))
          IN /\ \A k \in DOMAIN ret'[w].slots :
                   /\ LocalDate(ret'[w].slots[k].start_local) = d
                   /\ ret'[w].slots[k].end_local <= (d + 1) * TicksPerDay
             /\ \A i \in DOMAIN availability_exceptions :
                   LET e == availability_exceptions[i]
                   IN ( /\ e.coach_id = cid /\ e.type = "extra"
                        /\ e.start_at + off < d * TicksPerDay
                        /\ e.end_at + off > (d + 1) * TicksPerDay )
                       => \A x \in CandidateStarts(e.start_at + off, e.end_at + off, D, D) :
                             ( /\ d * TicksPerDay <= x
                               /\ x + D <= (d + 1) * TicksPerDay
                               /\ FreeBut(cid, d, x, D, { }) )
                              => \E k \in DOMAIN ret'[w].slots :
                                    ret'[w].slots[k].start_local = x
      ]_vars

(***************************************************************************)
(* C31..C40                                                                *)
(***************************************************************************)
\* the call of worker v is a create_booking, served right after the listing
\* of worker w, for the coach, the start of a listed slot and the duration
\* the listing reported
BooksListed(w, v) ==
    /\ v = w + 1
    /\ Done(w, "list_available_slots") /\ ret[w].kind = "return"
    /\ pc[v] \in { "cb_allowed", "cb_blocked", "cb_conflict", "cb_insert" }
    /\ call[v].coach_id = call[w].coach_id
    /\ call[v].duration_minutes = ret[w].duration_minutes
    /\ \E k \in DOMAIN ret[w].slots : ret[w].slots[k].start_utc = call[v].start_utc

\* C31: a create_booking call issued right after a list_available_slots
\* call, by a permitted actor, for the same coach, the start_utc of a slot
\* the listing returned and the duration it reported, is not rejected with
\* outside_availability, blocked_by_exception or slot_not_available.
C31_ListedIsBookable ==
    [][\A w, v \in Workers :
          (BooksListed(w, v) /\ pc'[v] = "done")
             => ret'[v].error \notin { "outside_availability", "blocked_by_exception",
                                       "slot_not_available" }
      ]_vars

\* worker w completes a list_available_classes_week call that returns
WeekReturns(w) ==
    /\ pc[w] = "lw_day" /\ pc'[w] = "done"
    /\ ret'[w].kind = "return"

\* C32: in every result of list_available_classes_week, total_slots is the
\* sum of the lengths of the slot lists of the returned days and does not
\* exceed max_total_slots.
C32_TotalWithinMax ==
    [][\A w \in Workers : WeekReturns(w) =>
          /\ ret'[w].total_slots = SumLens(ret'[w].days)
          /\ ret'[w].total_slots <= call[w].max_total_slots
      ]_vars

\* C33: list_available_classes_week returns truncated = true only if a
\* slot was left out: when the result holds, for every day from start_day to
\* the end of the week, all the slots list_available_slots produces for that
\* day, truncated is false.
C33_TruncatedOnlyIfCut ==
    [][\A w \in Workers : WeekReturns(w) =>
          LET R == ret'[w]
          IN (\A d \in R.start_day..R.week_end :
                 ReturnedFor(R, d) >= ProducedFor(call[w].coach_id, d, call[w].service_id))
                => ~ R.truncated
      ]_vars

\* sequence a is the beginning of sequence b
IsPrefix(a, b) == Len(a) <= Len(b) /\ a = SubSeq(b, 1, Len(a))

\* the lists list_available_slots may return for (coach, day, service) on
\* the stored agenda, one for each order the rows may come in
ListsFor(cid, d, service_id) ==
    { ListAvailableSlots(coaches, services, availability_rules,
                         availability_exceptions, bookings, cid, d, service_id,
                         rord, xord).slots :
        rord \in RuleOrders(availability_rules, cid, d),
        xord \in ExceptionOrders(availability_exceptions, cid, d, CoachTz(coaches[cid])) }

\* C34: list_available_classes_week only iterates list_available_slots: the
\* returned days are distinct dates in ascending order, all from start_day
\* (today, or the Monday of the ISO week of today in the coach's timezone
\* when past days are included) to the Sunday of that week; the slot list of
\* each returned day is a prefix of a list list_available_slots gives for
\* that date; a day without slots is returned only when
\* only_non_empty_days is false.
C34_WeekIterates ==
    [][\A w \in Workers : WeekReturns(w) =>
          LET R == ret'[w]
              c == call[w]
              today == LocalDate(clock + UtcOffset(CoachTz(coaches[c.coach_id])))
          IN /\ IsoWeekday(R.week_start) = 1
             /\ R.week_end = R.week_start + 6
             /\ R.week_start <= today /\ today <= R.week_end
             /\ R.start_day = IF c.include_past_days THEN R.week_start ELSE today
             /\ \A j, k \in DOMAIN R.days : j < k => R.days[j].day < R.days[k].day
             /\ \A k \in DOMAIN R.days :
                   /\ R.start_day <= R.days[k].day /\ R.days[k].day <= R.week_end
                   /\ \E full \in ListsFor(c.coach_id, R.days[k].day, c.service_id) :
                         IsPrefix(R.days[k].slots, full)
                   /\ R.days[k].slots = << >> => ~ c.only_non_empty_days
      ]_vars

\* a week asked from its Monday with the empty days: the seven days came
\* back, some empty, one with its slots
C34_Witness ==
    \E w \in Workers :
       /\ Done(w, "list_available_classes_week") /\ ret[w].kind = "return"
       /\ call[w].include_past_days /\ ~ call[w].only_non_empty_days
       /\ Len(ret[w].days) = 7
       /\ ret[w].days[1].day = ret[w].week_start
       /\ \E k \in DOMAIN ret[w].days : ret[w].days[k].slots = << >>
       /\ \E k \in DOMAIN ret[w].days : Len(ret[w].days[k].slots) >= 2

QueryOps ==
    { "list_available_slots", "list_available_classes_week", "list_bookings",
      "list_my_bookings", "list_coaches", "list_services" }

\* C35: no step of a call of list_available_slots, list_available_classes_week,
\* list_bookings, list_my_bookings, list_coaches or list_services changes a
\* table, whoever the actor is, registered or not.
C35_QueriesChangeNothing ==
    [][\A w \in Workers :
          (pc'[w] # pc[w] /\ call'[w].op \in QueryOps) => tables' = tables
      ]_vars

\* C36: no live (tentative or confirmed) booking of a coach overlaps a
\* blocked exception of the same coach, in any state reached by create_booking
\* and add_availability_exception calls, one after another or interleaved.
C36_NoLiveOnBlocked ==
    \A i \in DOMAIN bookings, x \in DOMAIN availability_exceptions :
        ( /\ Live(bookings[i])
          /\ availability_exceptions[x].type = "blocked"
          /\ availability_exceptions[x].coach_id = bookings[i].coach_id )
        => ~ Overlap(bookings[i].start_at, bookings[i].end_at,
                     availability_exceptions[x].start_at,
                     availability_exceptions[x].end_at)

\* C37: with set_availability_rules (replace_all) running next to
\* create_booking, every booking create_booking inserts lies in a rule window
\* or an extra window of the schedule stored in the state in which the insert
\* commits.
C37_AdmissibleAtCommit ==
    [][\A w \in Workers :
          ( /\ pc[w] = "cb_insert" /\ Steps(w)
            /\ Len(bookings') = Len(bookings) + 1 )
          => (InSomeWindow(call[w].coach_id, call[w].start_utc,
                           call[w].start_utc + call[w].duration_minutes))'
      ]_vars

\* C38: list_available_slots terminates whatever rules, exceptions and
\* durations are stored: every pass through the body of the slot-generation
\* loop moves cur forward, towards the end of its window, so that the loop is
\* left because its condition has become false and the call returns; this
\* for a slot_minutes of zero or below and for an effective duration of zero
\* or below as well.
C38_LoopEnds ==
    [][\A w \in Workers :
          (pc[w] = "ld_loop" /\ loc'[w] # loc[w]) =>
             /\ pc'[w] = "done" => ret'[w].kind = "return"
             /\ (pc'[w] = "ld_loop" /\ loc'[w].todo = loc[w].todo)
                   => loc'[w].cur > loc[w].cur
      ]_vars

\* worker w's call of consume_coach_invite ends with this step
Consumed(w) ==
    /\ call[w].op = "consume_coach_invite"
    /\ pc[w] \in { "ci_read", "ci_write" } /\ pc'[w] = "done"

\* the invite of the token of worker w's call, NULL if there is none
InviteOf(w) == InviteIdOf(coach_invites, Sha256Hex(call[w].token))

\* two calls with one token have both succeeded
TwiceConsumed ==
    \E w, v \in Workers :
        /\ w # v
        /\ Done(w, "consume_coach_invite") /\ ret[w].ok
        /\ Done(v, "consume_coach_invite") /\ ret[v].ok
        /\ call[w].token = call[v].token

\* C40: over any sequence or interleaving of consume_coach_invite calls with
\* one token at most one succeeds; a call ending while the token is unknown
\* raises invalid_token, while the invite is used already_used, while it is
\* expired (and unused) expired, and the call of a blocked user on a valid
\* invite user_blocked; a call that fails leaves coach_invites, app_users and
\* coaches as they were; a call that succeeds leaves every admin an admin.
C40_InviteSingleUse ==
    /\ [] ~ TwiceConsumed
    /\ [][\A w \in Workers : Consumed(w) =>
            LET i == InviteOf(w)
                u == GetAppUserByTelegram(app_users, call[w].telegram_user_id)
            IN /\ i = NULL => ret'[w] = Raise("invalid_token")
               /\ (i # NULL /\ coach_invites[i].used_at # NullTime)
                     => ret'[w] = Raise("already_used")
               /\ ( /\ i # NULL /\ coach_invites[i].used_at = NullTime
                    /\ coach_invites[i].expires_at # NullTime
                    /\ coach_invites[i].expires_at < loc[w].now )
                     => ret'[w] = Raise("expired")
               /\ ( /\ i # NULL /\ coach_invites[i].used_at = NullTime
                    /\ ~ ( /\ coach_invites[i].expires_at # NullTime
                           /\ coach_invites[i].expires_at < loc[w].now )
                    /\ u # NULL /\ app_users[u].status # "active" )
                     => ret'[w] = Raise("user_blocked")
               /\ ~ ret'[w].ok
                     => UNCHANGED << coach_invites, app_users, coaches >>
               /\ ret'[w].ok
                     => \A k \in DOMAIN app_users :
                           app_users[k].role = "admin" => app_users'[k].role = "admin"
        ]_vars

\* the delivery worker w processes got True from mark_update_received
PassedGate(w) ==
    /\ call[w].op = "process_update"
    /\ \/ pc[w] \notin { "idle", "pu_gate", "done" }
       \/ pc[w] = "done" /\ ret[w].outcome \notin { "no_text", "duplicate" }

\* the delivery worker w processes got False from mark_update_received
Dropped(w) == Done(w, "process_update") /\ ret[w].outcome = "duplicate"

\* rows of the bag b about update id that satisfy Test
CountOf(b, id, Test(_)) ==
    LET rows == { r \in BagToSet(b) : Test(r) }
        RECURSIVE Sum(_)
        Sum(S) == IF S = { } THEN 0
                  ELSE LET r == CHOOSE x \in S : TRUE
                       IN CopiesIn(r, b) + Sum(S \ { r })
    IN Sum(rows)

InboundOf(id) ==
    LET Test(r) == r.direction = "in" /\ r.telegram_update_id = id
    IN CountOf(messages, id, Test)

RepliesOf(id) ==
    LET Test(r) == r.update_id = id
    IN CountOf(outbox, id, Test)

UpdateIds == { u.update_id : u \in HUpdates }

\* C39: for every update_id, however many deliveries of the update are
\* processed, one after another or side by side: of the deliveries that
\* called mark_update_received exactly one got True, so at most one
\* process_update run is past the gate, and there is at most one inbound
\* message row and at most one reply for the update_id.
C39_UpdateProcessedOnce ==
    \A id \in UpdateIds :
        LET passed == { w \in Workers : PassedGate(w) /\ call[w].update_id = id }
            dropped == { w \in Workers : Dropped(w) /\ call[w].update_id = id }
        IN /\ Cardinality(passed) <= 1
           /\ (passed \cup dropped # { }) => Cardinality(passed) = 1
           /\ InboundOf(id) <= 1
           /\ RepliesOf(id) <= 1

\* one update was delivered twice: one delivery was answered, the other one
\* dropped at the gate
C39_Witness ==
    \E w, v \in Workers :
        /\ w # v
        /\ Done(w, "process_update") /\ Done(v, "process_update")
        /\ call[w].update_id = call[v].update_id
        /\ ret[w].outcome = "replied"
        /\ ret[v].outcome = "duplicate"
        /\ InboundOf(call[w].update_id) = 1
        /\ RepliesOf(call[w].update_id) = 1

====
